---- MODULE Spec2Model ----
(***************************************************************************)
(* LuxTrack: the relational store, the service layer that wraps each       *)
(* mutating use case in one store transaction, the multi-row transaction   *)
(* creation workflow, and the bearer-token authentication path.            *)
(***************************************************************************)
EXTENDS Integers, Sequences, FiniteSets, TLC

(* ---------------------------------------------------------------------- *)
(* Bounds                                                                 *)
(* ---------------------------------------------------------------------- *)
MaxReq == 2
MaxItems == 2

Reqs == 1..MaxReq

(* ---------------------------------------------------------------------- *)
(* Master data and identifiers                                            *)
(* ---------------------------------------------------------------------- *)
Available == 1
Reserved == 2
Sold == 3
StatusIds == {Available, Reserved, Sold}

ProductIds == {"p1", "p2", "p3"}
Codes == {"c1", "c2"}

(* User ids are UUIDs; user names are not.                                 *)
UserIds == {"u1", "u2"}
Usernames == {"admin", "bob"}
PlainPasswords == {"admin123", "pw73bytes"}

NoRow == [code |-> "", status_id |-> 0, source_id |-> ""]

(* Line items a request may carry.  p3 is never present in the store.      *)
ItemInputs ==
    { [product_id |-> "p1", quantity |-> 2, unit_price |-> 3],
      [product_id |-> "p2", quantity |-> 1, unit_price |-> 5],
      [product_id |-> "p3", quantity |-> 1, unit_price |-> 3] }

RECURSIVE SeqsUpTo(_, _)
SeqsUpTo(S, n) ==
    IF n = 0 THEN {<<>>}
    ELSE LET shorter == SeqsUpTo(S, n - 1)
         IN  shorter \cup {Append(s, x) : s \in {t \in shorter : Len(t) = n - 1}, x \in S}

ItemLists == SeqsUpTo(ItemInputs, MaxItems)

(* A total a client of the API may send along: right for two items of p2,  *)
(* wrong for every other item list.  The form sends none (-1).             *)
ClientTotals == {10}
NoTotal == -1
TransactionTypes == {"sale", "purchase"}

(* ---------------------------------------------------------------------- *)
(* State                                                                  *)
(* ---------------------------------------------------------------------- *)
VARIABLES
    users,          \* committed rows of table users, by id
    products,       \* committed rows of table products, by id
    transactions,   \* committed rows of table transactions, by id
    details,        \* committed rows of table transaction_details
    pc,             \* position of each request
    op,             \* the call each request carries
    txopen,         \* whether the request holds an open store transaction
    txbuf,          \* the uncommitted writes of that store transaction
    step,           \* number of statements the request has executed
    raised,         \* the error the store or repository raised, "nil" if none
    result,         \* the error the service call returned, "nil" if none
    resp,           \* the HTTP response of the request
    formError,      \* the error message the transaction form displays
    issued,         \* number of UUIDs uuid.NewString has handed out
    now,            \* the wall clock, in ticks
    tokens,         \* the tokens logins have handed out, with their time of issue
    http,           \* the last HTTP exchange that went through the router
    logs,           \* committed rows of tables product_logs and user_logs
    reply,          \* the JSON a handler of the user endpoints last sent
    customers,      \* committed rows of table customers, by id
    sources,        \* committed rows of the sources, by id
    rd,             \* the read request in progress and what it has fetched
    env,            \* the environment variables of the process
    cfg,            \* package config: the variable cfg
    once,           \* package config: the sync.Once
    callers,        \* the goroutines that call config.Get or config.LoadConfig
    returned,       \* every configuration a call has returned so far
    storage,        \* the browser: localStorage item access_token
    axiosAuth,      \* the browser: axios.defaults.headers.common['Authorization']
    user,           \* AuthProvider: state user
    loading,        \* AuthProvider: state loading
    call,           \* the browser: the request in flight and its answer
    boot,           \* the server process: where main is, requests served
    world,          \* what the process finds: database, schema, port
    images,         \* ProductForm: state images
    readers         \* the FileReaders of the last selection

vars == <<users, products, transactions, details, pc, op, txopen, txbuf, step,
          raised, result, resp, formError, issued, now, tokens, http, logs, reply,
          customers, sources, rd, env, cfg, once, callers, returned,
          storage, axiosAuth, user, loading, call, boot, world, images, readers>>

authVars == <<now, tokens, http, reply>>

storeVars == <<users, products, transactions, details, logs, customers, sources>>

(* State outside the store and the write requests.                        *)
configVars == <<env, cfg, once, callers, returned>>

clientVars == <<storage, axiosAuth, user, loading, call>>

bootVars == <<boot, world>>

uploadVars == <<images, readers>>

sideVars == <<rd, configVars, clientVars, bootVars, uploadVars>>

(* What the steps of package config, of the read requests, of the page,   *)
(* of process startup and of the image upload leave alone.                *)
notConfig == <<rd, clientVars, bootVars, uploadVars>>
notRead == <<configVars, clientVars, bootVars, uploadVars>>
notClient == <<rd, configVars, bootVars, uploadVars>>
notBoot == <<rd, clientVars, uploadVars>>
notUpload == <<rd, configVars, clientVars, bootVars>>

NoOp == [kind |-> "none"]
NoResp == [status |-> 0, body |-> ""]
NoReply == [h |-> "", id |-> "", status |-> 0, body |-> "", users |-> {}]

(* ---------------------------------------------------------------------- *)
(* Strings, tokens and HTTP exchanges                                     *)
(* ---------------------------------------------------------------------- *)
NoTok == [email |-> "", exp |-> 0, sig |-> <<"", 0, "">>]

(* The text after the scheme of an Authorization header: nothing, text    *)
(* that is no JWT, or a JWT.                                              *)
EmptyStr == [kind |-> "empty", tok |-> NoTok]
GarbageStr == [kind |-> "garbage", tok |-> NoTok]
JwtStr(tok) == [kind |-> "jwt", tok |-> tok]

(* c.Get("Authorization") of a request without the header is "".           *)
NoHeader == [prefix |-> "", rest |-> EmptyStr]

NoBody == [username |-> "", password |-> ""]
NoLoginResp == [status |-> 0, body |-> "", token |-> NoTok]
NoExchange == [method |-> "", path |-> "", auth |-> NoHeader, body |-> NoBody,
               ran |-> <<>>, authErr |-> "nil", resp |-> NoLoginResp]

(* A bcrypt hash: it verifies the one plain password it was made from.    *)
BcryptOf(plain) == [alg |-> "bcrypt", plain |-> plain]

(* The seeded row's password_hash is the text $2a$12$REPLACE_WITH_HASH,    *)
(* which is the hash of no password.                                       *)
SeedHash == [alg |-> "bcrypt", plain |-> "REPLACE_WITH_HASH"]

SeedUsers ==
    "u1" :> [username |-> "admin", password_hash |-> SeedHash, role |-> "admin",
             created_by |-> "", updated_by |-> ""]

(* Two products in stock, neither with a source.                          *)
SeedProducts ==
    ("p1" :> [code |-> "c1", status_id |-> Available, source_id |-> ""])
       @@ ("p2" :> [code |-> "c2", status_id |-> Available, source_id |-> ""])

NoRead == [kind |-> "none"]

(* Goroutines that ask for the configuration.                              *)
Callers == {"main", "InitDB"}

NoConfig == [DBPort |-> -1, AppPort |-> ""]
NoEnv == [DB_PORT |-> "", APP_PORT |-> ""]

(* No configuration asked for yet.                                        *)
ConfigUnloaded ==
    /\ cfg = NoConfig
    /\ once = [done |-> FALSE, m |-> ""]
    /\ callers = [c \in Callers |-> [pc |-> "idle", dbPort |-> -1]]
    /\ returned = {}

(* localStorage.getItem of an item that is not there.                      *)
NullItem == [kind |-> "null", tok |-> NoTok]

NoUser == [id |-> "", username |-> "", role |-> ""]
NoCall == [kind |-> "none"]

(* The page before it is opened.                                           *)
PageClosed ==
    /\ storage = NullItem
    /\ axiosAuth = NoHeader
    /\ user = NoUser
    /\ loading = TRUE
    /\ call = NoCall

(* main has not run a statement: the package variable db is nil, nothing  *)
(* is printed, no request served.                                         *)
ProcessStart == [pc |-> "main", db |-> "nil", printed |-> {}, served |-> 0]

(* The process before main runs, and the database it will find.           *)
NotBooted ==
    /\ boot = ProcessStart
    /\ world = [up |-> TRUE, schema |-> "current", portFree |-> TRUE]

(* The product form with nothing selected.                                *)
FormEmpty ==
    /\ images = <<>>
    /\ readers = <<>>

(* The variables outside the server's requests, before anything runs.      *)
OffStage ==
    /\ rd = NoRead
    /\ env = NoEnv
    /\ ConfigUnloaded
    /\ PageClosed
    /\ NotBooted
    /\ FormEmpty

Init ==
    /\ users = SeedUsers
    /\ products = SeedProducts
    /\ transactions = <<>>
    /\ details = {}
    /\ pc = [r \in Reqs |-> "idle"]
    /\ op = [r \in Reqs |-> NoOp]
    /\ txopen = [r \in Reqs |-> FALSE]
    /\ txbuf = [r \in Reqs |-> <<>>]
    /\ step = [r \in Reqs |-> 0]
    /\ raised = [r \in Reqs |-> "nil"]
    /\ result = [r \in Reqs |-> "nil"]
    /\ resp = [r \in Reqs |-> NoResp]
    /\ formError = [r \in Reqs |-> ""]
    /\ issued = 0
    /\ now = 0
    /\ tokens = {}
    /\ http = NoExchange
    /\ logs = {}
    /\ reply = NoReply
    /\ customers = <<>>
    /\ sources = <<>>
    /\ OffStage

(* ---------------------------------------------------------------------- *)
(* The store: committed tables, and writes buffered in open transactions  *)
(* ---------------------------------------------------------------------- *)
Store == [users |-> users, products |-> products,
          transactions |-> transactions, details |-> details, logs |-> logs]

Remove(f, k) == [x \in DOMAIN f \ {k} |-> f[x]]

OnDeleteLogsCascade == "CASCADE"

(* user_logs.user_id REFERENCES users(id) and product_logs.product_id     *)
(* REFERENCES products(id) name no ON DELETE action.                      *)
OnDeleteLogs == "NO ACTION"

(* The log rows left when the row with id k is deleted.                    *)
LogsWithout(L, k) ==
    IF OnDeleteLogs = "CASCADE" THEN {l \in L : l.subject # k} ELSE L

(* The effect of one write statement on the tables.                        *)
ApplyWrite(S, w) ==
    CASE w.t = "ins_product" -> [S EXCEPT !.products = (w.id :> w.row) @@ S.products]
      [] w.t = "upd_product" -> [S EXCEPT !.products =
                                    [S.products EXCEPT ![w.id].code = w.row.code,
                                                       ![w.id].status_id = w.row.status_id]]
      [] w.t = "del_product" -> [S EXCEPT !.products = Remove(S.products, w.id),
                                          !.logs = LogsWithout(S.logs, w.id)]
      [] w.t = "set_status"  -> [S EXCEPT !.products =
                                    [S.products EXCEPT ![w.id].status_id = w.row.status_id]]
      [] w.t = "ins_user"    -> [S EXCEPT !.users = (w.id :> w.row) @@ S.users]
      [] w.t = "upd_user"    -> [S EXCEPT !.users =
                                    [S.users EXCEPT ![w.id].username = w.row.username,
                                                    ![w.id].role = w.row.role,
                                                    ![w.id].updated_by = w.row.updated_by]]
      [] w.t = "del_user"    -> [S EXCEPT !.users = Remove(S.users, w.id),
                                          !.logs = LogsWithout(S.logs, w.id)]
      [] w.t = "ins_tx"      -> [S EXCEPT !.transactions = (w.id :> w.row) @@ S.transactions]
      [] w.t = "ins_detail"  -> [S EXCEPT !.details = S.details \cup {w.row}]
      [] w.t = "ins_log"     -> [S EXCEPT !.logs = S.logs \cup {w.row}]

RECURSIVE ApplyAll(_, _)
ApplyAll(S, buf) ==
    IF buf = <<>> THEN S ELSE ApplyAll(ApplyWrite(S, Head(buf)), Tail(buf))

(* What request r reads inside its own store transaction.                  *)
View(r) == ApplyAll(Store, txbuf[r])

(* Row locks a write takes until its transaction ends.                     *)
XKeys(w) ==
    CASE w.t \in {"ins_product", "upd_product"} -> {<<"row", w.id>>, <<"code", w.row.code>>}
      [] w.t = "del_product" -> {<<"row", w.id>>, <<"key", w.id>>}
      [] w.t = "set_status"  -> {<<"row", w.id>>}
      [] w.t \in {"ins_user", "upd_user"} -> {<<"user", w.id>>}
      [] w.t = "del_user" -> {<<"user", w.id>>, <<"key", w.id>>}
      [] OTHER -> {}

SKeys(w) ==
    IF w.t = "ins_detail" THEN {<<"key", w.row.product_id>>}
    ELSE IF w.t = "ins_log" THEN {<<"key", w.row.subject>>}
    ELSE {}

HeldX(q) == UNION {XKeys(txbuf[q][k]) : k \in 1..Len(txbuf[q])}
HeldS(q) == UNION {SKeys(txbuf[q][k]) : k \in 1..Len(txbuf[q])}

Blocked(r, w) ==
    \E q \in Reqs \ {r} :
        /\ txopen[q]
        /\ \/ XKeys(w) \cap (HeldX(q) \cup HeldS(q)) # {}
           \/ SKeys(w) \cap HeldX(q) # {}


(* ---------------------------------------------------------------------- *)
(* HTTP responses                                                         *)
(* ---------------------------------------------------------------------- *)
StatusOK == 200
StatusCreated == 201
StatusBadRequest == 400
StatusUnauthorized == 401
StatusNotFound == 404
StatusInternalServerError == 500

JSONError(code, message) == [status |-> code, body |-> message]

(* The response a handler builds from the error its service call returned. *)
HandlerResp(o, err) ==
    CASE o.kind = "transaction" ->
            IF err = "nil" THEN [status |-> StatusOK, body |-> "created"]
            ELSE IF err = "validation" THEN JSONError(StatusBadRequest, err)
            ELSE JSONError(StatusInternalServerError, err)
      [] o.kind = "product_create" ->
            IF err = "nil" THEN [status |-> StatusCreated, body |-> "Product created"]
            ELSE JSONError(StatusInternalServerError, err)
      [] o.kind = "user_create" ->
            IF err = "nil" THEN [status |-> StatusCreated, body |-> o.u.id]
            ELSE JSONError(StatusInternalServerError, err)
      [] o.kind = "user_update" ->
            IF err = "nil" THEN [status |-> StatusOK, body |-> "updated"]
            ELSE JSONError(StatusInternalServerError, err)
      [] o.kind = "user_delete" ->
            IF err = "nil" THEN [status |-> StatusOK, body |-> "deleted"]
            ELSE JSONError(StatusInternalServerError, err)
      [] OTHER -> NoResp

(* TransactionForm.handleSubmit after the await: the catch branch.         *)
FormAfter(o, rsp) ==
    IF o.kind = "transaction" /\ o.via = "form" /\ rsp.status >= StatusBadRequest
    THEN "Failed to create transaction"
    ELSE ""

(* ---------------------------------------------------------------------- *)
(* One store transaction per service call                                 *)
(* ---------------------------------------------------------------------- *)
Return(r, err) ==
    /\ pc' = [pc EXCEPT ![r] = "done"]
    /\ result' = [result EXCEPT ![r] = err]
    /\ resp' = [resp EXCEPT ![r] = HandlerResp(op[r], err)]
    /\ formError' = [formError EXCEPT ![r] = FormAfter(op[r], HandlerResp(op[r], err))]

(* defer tx.Rollback(): the buffered writes are dropped, the locks freed.  *)
Rollback(r) ==
    /\ txopen' = [txopen EXCEPT ![r] = FALSE]
    /\ txbuf' = [txbuf EXCEPT ![r] = <<>>]

(* The error path without the deferred rollback.                           *)
ReturnErrNoRollback(r, err) ==
    /\ raised' = [raised EXCEPT ![r] = err]
    /\ Return(r, err)
    /\ UNCHANGED <<sideVars, storeVars, op, step, issued, txopen, txbuf, authVars>>

(* if err != nil { return err }, with the deferred rollback               *)
ReturnErr(r, err) ==
    /\ raised' = [raised EXCEPT ![r] = err]
    /\ Rollback(r)
    /\ Return(r, err)
    /\ UNCHANGED <<sideVars, storeVars, op, step, issued, authVars>>

(* The statement run on the connection instead of the transaction.         *)
ExecutedAutocommit(r, writes, next) ==
    /\ LET S == ApplyAll(Store, writes)
       IN  /\ users' = S.users
           /\ products' = S.products
           /\ transactions' = S.transactions
           /\ details' = S.details
           /\ logs' = S.logs
           /\ UNCHANGED <<customers, sources>>
    /\ step' = [step EXCEPT ![r] = step[r] + 1]
    /\ pc' = [pc EXCEPT ![r] = next]
    /\ UNCHANGED <<sideVars, op, txopen, txbuf, raised, result, resp, formError, issued, authVars>>

(* A statement that succeeded: its write joins the open transaction.       *)
Executed(r, writes, next) ==
    /\ txbuf' = [txbuf EXCEPT ![r] = txbuf[r] \o writes]
    /\ step' = [step EXCEPT ![r] = step[r] + 1]
    /\ pc' = [pc EXCEPT ![r] = next]
    /\ UNCHANGED <<sideVars, storeVars, op, txopen, raised, result, resp, formError, issued, authVars>>

BeginTx(r) ==
    /\ pc[r] = "begin"
    /\ txopen' = [txopen EXCEPT ![r] = TRUE]
    /\ pc' = [pc EXCEPT ![r] = "exec"]
    /\ UNCHANGED <<sideVars, storeVars, op, txbuf, step, raised, result, resp, formError, issued, authVars>>

BeginTxFail(r) ==
    /\ pc[r] = "begin"
    /\ ReturnErr(r, "begin_failed")

(* ExecContext returns an error: connection lost, deadlock detected, ...   *)
StoreFault(r) ==
    /\ pc[r] = "exec"
    /\ ReturnErr(r, "exec_failed")

Commit(r) ==
    /\ pc[r] = "commit"
    /\ LET S == ApplyAll(Store, txbuf[r])
       IN  /\ users' = S.users
           /\ products' = S.products
           /\ transactions' = S.transactions
           /\ details' = S.details
           /\ logs' = S.logs
           /\ UNCHANGED <<customers, sources>>
    /\ Rollback(r)
    /\ Return(r, "nil")
    /\ UNCHANGED <<sideVars, op, step, raised, issued, authVars>>

(* tx.Commit()'s error dropped: the caller is told the write succeeded.    *)
CommitFailSwallowed(r) ==
    /\ pc[r] = "commit"
    /\ raised' = [raised EXCEPT ![r] = "commit_failed"]
    /\ Rollback(r)
    /\ Return(r, "nil")
    /\ UNCHANGED <<sideVars, storeVars, op, step, issued, authVars>>

CommitFail(r) ==
    /\ pc[r] = "commit"
    /\ ReturnErr(r, "commit_failed")

(* ---------------------------------------------------------------------- *)
(* Product service and repository                                         *)
(* ---------------------------------------------------------------------- *)
(* A generator that hands out the same identifier twice.                  *)
UuidPoolRepeating == <<"u2", "u2">>

(* uuid.NewString: the identifiers it hands out, in order, all different. *)
UuidPool == <<"u2", "u3">>

(* The text is accepted by a column of type UUID.                          *)
IsUUID(x) ==
    x \in UserIds \cup ProductIds \cup {UuidPool[i] : i \in 1..Len(UuidPool)}

ProductInputs == [id : ProductIds, code : Codes, status_id : StatusIds]

(* The statements of productRepository name no source column.            *)
RowOf(p) == [code |-> p.code, status_id |-> p.status_id, source_id |-> ""]

Call(r, o) ==
    /\ pc[r] = "idle"
    /\ op' = [op EXCEPT ![r] = o]
    /\ pc' = [pc EXCEPT ![r] = "begin"]
    /\ UNCHANGED <<sideVars, storeVars, txopen, txbuf, step, raised, result, resp, formError, issued, authVars>>

ProductServiceUpdate(r, p) == Call(r, [kind |-> "product_update", p |-> p])

ProductServiceDelete(r, id) == Call(r, [kind |-> "product_delete", id |-> id])

(* The products table without the UNIQUE constraint on code.              *)
CodeTakenUnchecked(S, id, code) == FALSE

(* code VARCHAR(32) UNIQUE: another row already has the code.              *)
CodeTaken(S, id, code) ==
    \E x \in DOMAIN S.products : x # id /\ S.products[x].code = code

(* UPDATE products SET ..., status_id = $4, ..., code = $6 WHERE id = $7   *)
ProductRepositoryUpdate(r) ==
    /\ pc[r] = "exec"
    /\ op[r].kind = "product_update"
    /\ LET p == op[r].p
           w == [t |-> "upd_product", id |-> p.id, row |-> RowOf(p)]
           S == View(r)
       IN  IF p.id \notin DOMAIN S.products
           THEN Executed(r, <<>>, "commit")
           ELSE /\ ~Blocked(r, w)
                /\ IF CodeTaken(S, p.id, p.code)
                   THEN ReturnErr(r, "unique_violation")
                   ELSE Executed(r, <<w>>, "commit")

(* DELETE FROM products WHERE id = $1                                      *)
ProductRepositoryDelete(r) ==
    /\ pc[r] = "exec"
    /\ op[r].kind = "product_delete"
    /\ LET id == op[r].id
           w == [t |-> "del_product", id |-> id, row |-> NoRow]
           S == View(r)
       IN  IF id \notin DOMAIN S.products
           THEN Executed(r, <<>>, "commit")
           ELSE /\ ~Blocked(r, w)
                /\ IF \/ \E d \in S.details : d.product_id = id
                      \/ OnDeleteLogs = "NO ACTION" /\ \E l \in S.logs : l.subject = id
                   THEN ReturnErr(r, "fk_violation")
                   ELSE Executed(r, <<w>>, "commit")

(* What a caller may hand to productService.Create: a product with an id, *)
(* or one whose id was left empty.                                         *)
CreateProductInputs ==
    ProductInputs \cup [id : {""}, code : {"c2"}, status_id : {Available}]

ProductServiceCreate(r, p) == Call(r, [kind |-> "product_create", p |-> p])

(* INSERT INTO products (id, ..., status_id, ..., code) VALUES (...)       *)
ProductRepositoryInsert(r) ==
    /\ pc[r] = "exec"
    /\ op[r].kind = "product_create"
    /\ LET p == op[r].p
           w == [t |-> "ins_product", id |-> p.id, row |-> RowOf(p)]
           S == View(r)
       IN  /\ ~Blocked(r, w)
           /\ IF ~IsUUID(p.id)
              THEN ReturnErr(r, "invalid_uuid")
              ELSE IF p.id \in DOMAIN S.products \/ CodeTaken(S, p.id, p.code)
              THEN ReturnErr(r, "unique_violation")
              ELSE Executed(r, <<w>>, "commit")

(* ---------------------------------------------------------------------- *)
(* User service and repository                                            *)
(* ---------------------------------------------------------------------- *)
(* Who a caller may name as creator: a user id, or (as the handlers do)    *)
(* the name carried by the token.                                          *)
Actors == {"u1", "admin"}

Roles == {"staff"}

UserInputs == [username : Usernames, role : Roles, by : Actors]

(* password.Hash: bcrypt refuses a password longer than 72 bytes.          *)
HashFails(plain) == plain = "pw73bytes"

UserServiceCreate(r, u, plain) ==
    /\ pc[r] = "idle"
    /\ issued < Len(UuidPool)
    /\ issued' = issued + 1
    /\ LET id == UuidPool[issued + 1]
           o == [kind |-> "user_create",
                 u |-> [id |-> id, username |-> u.username, role |-> u.role,
                        password_hash |-> BcryptOf(plain),
                        created_by |-> u.by, updated_by |-> u.by]]
       IN  /\ op' = [op EXCEPT ![r] = o]
           /\ IF HashFails(plain)
              THEN /\ raised' = [raised EXCEPT ![r] = "hash_failed"]
                   /\ pc' = [pc EXCEPT ![r] = "done"]
                   /\ result' = [result EXCEPT ![r] = "hash_failed"]
                   /\ resp' = [resp EXCEPT ![r] = HandlerResp(o, "hash_failed")]
              ELSE /\ pc' = [pc EXCEPT ![r] = "begin"]
                   /\ UNCHANGED <<raised, result, resp>>
    /\ UNCHANGED <<sideVars, storeVars, txopen, txbuf, step, formError, authVars>>

UserServiceUpdate(r, id, u) ==
    Call(r, [kind |-> "user_update",
             u |-> [id |-> id, username |-> u.username, role |-> u.role,
                    updated_by |-> u.by]])

UserServiceDelete(r, id) == Call(r, [kind |-> "user_delete", id |-> id])

(* INSERT INTO users (id, username, password_hash, ..., created_by,        *)
(* created_at, updated_by, updated_at) VALUES (...)                        *)
UserRepositoryInsert(r) ==
    /\ pc[r] = "exec"
    /\ op[r].kind = "user_create"
    /\ LET u == op[r].u
           w == [t |-> "ins_user", id |-> u.id,
                 row |-> [username |-> u.username, password_hash |-> u.password_hash,
                          role |-> u.role,
                          created_by |-> u.created_by, updated_by |-> u.updated_by]]
       IN  /\ ~Blocked(r, w)
           /\ IF ~IsUUID(u.created_by) \/ ~IsUUID(u.updated_by)
              THEN ReturnErr(r, "invalid_uuid")
              ELSE IF u.id \in DOMAIN View(r).users
              THEN ReturnErr(r, "unique_violation")
              ELSE Executed(r, <<w>>, "commit")

(* UPDATE users SET username=$1, ..., updated_by=$5, updated_at=NOW()      *)
(* WHERE id=$6                                                             *)
UserRepositoryUpdate(r) ==
    /\ pc[r] = "exec"
    /\ op[r].kind = "user_update"
    /\ LET u == op[r].u
           w == [t |-> "upd_user", id |-> u.id,
                 row |-> [username |-> u.username, role |-> u.role,
                          updated_by |-> u.updated_by]]
       IN  IF ~IsUUID(u.updated_by) \/ ~IsUUID(u.id)
           THEN ReturnErr(r, "invalid_uuid")
           ELSE IF u.id \notin DOMAIN View(r).users
           THEN Executed(r, <<>>, "commit")
           ELSE /\ ~Blocked(r, w)
                /\ Executed(r, <<w>>, "commit")

(* DELETE FROM users WHERE id=$1                                           *)
UserRepositoryDelete(r) ==
    /\ pc[r] = "exec"
    /\ op[r].kind = "user_delete"
    /\ LET w == [t |-> "del_user", id |-> op[r].id, row |-> NoRow]
       IN  IF ~IsUUID(op[r].id)
           THEN ReturnErr(r, "invalid_uuid")
           ELSE IF op[r].id \notin DOMAIN View(r).users
           THEN Executed(r, <<>>, "commit")
           ELSE /\ ~Blocked(r, w)
                /\ IF OnDeleteLogs = "NO ACTION"
                      /\ \E l \in View(r).logs : l.subject = op[r].id
                   THEN ReturnErr(r, "fk_violation")
                   ELSE Executed(r, <<w>>, "commit")

(* ---------------------------------------------------------------------- *)
(* Transaction creation                                                   *)
(* ---------------------------------------------------------------------- *)
RECURSIVE calculateTotal(_)
calculateTotal(selectedProducts) ==
    IF selectedProducts = <<>> THEN 0
    ELSE LET item == selectedProducts[Len(selectedProducts)]
         IN  calculateTotal(SubSeq(selectedProducts, 1, Len(selectedProducts) - 1))
               + item.quantity * item.unit_price

RECURSIVE ComputeTotalNoQuantity(_)
ComputeTotalNoQuantity(items) ==
    IF items = <<>> THEN 0
    ELSE Head(items).unit_price + ComputeTotalNoQuantity(Tail(items))

(* total = sum over the line items of quantity * unit_price                *)
RECURSIVE ComputeTotal(_)
ComputeTotal(items) ==
    IF items = <<>> THEN 0
    ELSE Head(items).quantity * Head(items).unit_price + ComputeTotal(Tail(items))

TransactionBodies ==
    [transaction_type : TransactionTypes, items : ItemLists, total_amount : ClientTotals]

CreateTransactionUnvalidated(r, body, via) ==
    /\ pc[r] = "idle"
    /\ op' = [op EXCEPT ![r] = [kind |-> "transaction", via |-> via, body |-> body]]
    /\ pc' = [pc EXCEPT ![r] = "begin"]
    /\ UNCHANGED <<sideVars, storeVars, txopen, txbuf, step, raised, result, resp, formError, issued, authVars>>

(* POST /api/transactions: an empty item list is rejected before anything  *)
(* touches the store.                                                      *)
CreateTransaction(r, body, via) ==
    /\ pc[r] = "idle"
    /\ LET o == [kind |-> "transaction", via |-> via, body |-> body]
       IN  /\ op' = [op EXCEPT ![r] = o]
           /\ IF body.items = <<>>
              THEN /\ pc' = [pc EXCEPT ![r] = "done"]
                   /\ result' = [result EXCEPT ![r] = "validation"]
                   /\ resp' = [resp EXCEPT ![r] = HandlerResp(o, "validation")]
                   /\ formError' = [formError EXCEPT ![r] =
                                       FormAfter(o, HandlerResp(o, "validation"))]
              ELSE /\ pc' = [pc EXCEPT ![r] = "begin"]
                   /\ UNCHANGED <<result, resp, formError>>
    /\ UNCHANGED <<sideVars, storeVars, txopen, txbuf, step, raised, issued, authVars>>

PostTransaction(r, body) == CreateTransaction(r, body, "api")

(* TransactionForm.handleSubmit: nothing is sent for an empty selection;   *)
(* the body carries the items and no total.                                *)
handleSubmit(r, transaction_type, selectedProducts) ==
    IF Len(selectedProducts) = 0
    THEN /\ pc[r] = "idle"
         /\ formError' = [formError EXCEPT ![r] = "Please select at least one product"]
         /\ op' = [op EXCEPT ![r] = [kind |-> "form_rejected"]]
         /\ pc' = [pc EXCEPT ![r] = "done"]
         /\ UNCHANGED <<sideVars, storeVars, txopen, txbuf, step, raised, result, resp, issued, authVars>>
    ELSE CreateTransaction(r, [transaction_type |-> transaction_type,
                               items |-> selectedProducts,
                               total_amount |-> NoTotal], "form")

TxId(r) == r

InsertHeader(r) ==
    /\ pc[r] = "exec"
    /\ op[r].kind = "transaction"
    /\ step[r] = 0
    /\ LET b == op[r].body
           w == [t |-> "ins_tx", id |-> TxId(r),
                 row |-> [transaction_type |-> b.transaction_type,
                          total_amount |-> ComputeTotal(b.items)]]
       IN  Executed(r, <<w>>, "exec")

InsertLineItem(r) ==
    /\ pc[r] = "exec"
    /\ op[r].kind = "transaction"
    /\ step[r] \in 1..Len(op[r].body.items)
    /\ LET item == op[r].body.items[step[r]]
           w == [t |-> "ins_detail", id |-> TxId(r),
                 row |-> [transaction_id |-> TxId(r), line |-> step[r],
                          product_id |-> item.product_id,
                          quantity |-> item.quantity,
                          unit_price |-> item.unit_price,
                          total_price |-> item.quantity * item.unit_price]]
           last == step[r] = Len(op[r].body.items)
       IN  IF item.product_id \notin DOMAIN View(r).products
           THEN ReturnErr(r, "fk_violation")
           ELSE /\ ~Blocked(r, w)
                /\ Executed(r, <<w>>,
                            IF last /\ op[r].body.transaction_type # "sale"
                            THEN "commit" ELSE "exec")

UpdateProductStatusSkipped(r) ==
    /\ pc[r] = "exec"
    /\ op[r].kind = "transaction"
    /\ op[r].body.transaction_type = "sale"
    /\ LET n == Len(op[r].body.items)
       IN  /\ step[r] \in (n + 1)..(2 * n)
           /\ Executed(r, <<>>, IF step[r] = 2 * n THEN "commit" ELSE "exec")

UpdateProductStatusIfAvailable(r) ==
    /\ pc[r] = "exec"
    /\ op[r].kind = "transaction"
    /\ op[r].body.transaction_type = "sale"
    /\ LET n == Len(op[r].body.items)
       IN  /\ step[r] \in (n + 1)..(2 * n)
           /\ LET id == op[r].body.items[step[r] - n].product_id
                  w == [t |-> "set_status", id |-> id,
                        row |-> [code |-> "", status_id |-> Sold, source_id |-> ""]]
              IN  /\ ~Blocked(r, w)
                  /\ IF products[id].status_id # Available
                     THEN ReturnErr(r, "not_available")
                     ELSE Executed(r, <<w>>, IF step[r] = 2 * n THEN "commit" ELSE "exec")

UpdateProductStatus(r) ==
    /\ pc[r] = "exec"
    /\ op[r].kind = "transaction"
    /\ op[r].body.transaction_type = "sale"
    /\ LET n == Len(op[r].body.items)
       IN  /\ step[r] \in (n + 1)..(2 * n)
           /\ LET w == [t |-> "set_status", id |-> op[r].body.items[step[r] - n].product_id,
                        row |-> [code |-> "", status_id |-> Sold, source_id |-> ""]]
              IN  /\ ~Blocked(r, w)
                  /\ Executed(r, <<w>>, IF step[r] = 2 * n THEN "commit" ELSE "exec")

(* ---------------------------------------------------------------------- *)
(* Specification: transaction creation next to product maintenance        *)
(* ---------------------------------------------------------------------- *)
Next ==
    \E r \in Reqs :
        \/ \E b \in TransactionBodies : PostTransaction(r, b)
        \/ \E ty \in TransactionTypes, sel \in ItemLists : handleSubmit(r, ty, sel)
        \/ \E p \in ProductInputs : ProductServiceUpdate(r, p)
        \/ \E id \in ProductIds : ProductServiceDelete(r, id)
        \/ BeginTx(r)
        \/ BeginTxFail(r)
        \/ InsertHeader(r)
        \/ InsertLineItem(r)
        \/ UpdateProductStatus(r)
        \/ ProductRepositoryUpdate(r)
        \/ ProductRepositoryDelete(r)
        \/ StoreFault(r)
        \/ Commit(r)
        \/ CommitFail(r)

Spec == Init /\ [][Next]_vars

(* ---------------------------------------------------------------------- *)
(* Specification: the mutating service operations                         *)
(* ---------------------------------------------------------------------- *)
NextSvc ==
    \E r \in Reqs :
        \/ \E u \in UserInputs, plain \in PlainPasswords : UserServiceCreate(r, u, plain)
        \/ \E id \in UserIds, u \in UserInputs : UserServiceUpdate(r, id, u)
        \/ \E id \in UserIds : UserServiceDelete(r, id)
        \/ \E p \in CreateProductInputs : ProductServiceCreate(r, p)
        \/ \E p \in ProductInputs : ProductServiceUpdate(r, p)
        \/ \E id \in ProductIds : ProductServiceDelete(r, id)
        \/ BeginTx(r)
        \/ BeginTxFail(r)
        \/ UserRepositoryInsert(r)
        \/ UserRepositoryUpdate(r)
        \/ UserRepositoryDelete(r)
        \/ ProductRepositoryInsert(r)
        \/ ProductRepositoryUpdate(r)
        \/ ProductRepositoryDelete(r)
        \/ StoreFault(r)
        \/ Commit(r)
        \/ CommitFail(r)

SpecSvc == Init /\ [][NextSvc]_vars


(* ---------------------------------------------------------------------- *)
(* Authentication: tokens, the middleware, the router, login              *)
(* ---------------------------------------------------------------------- *)
TicksPerSec == 2
TokenTTLHours == 24
MaxSkew == 3
MaxTokens == 1

(* 24 * time.Hour, in ticks                                                *)
TokenTTL == TokenTTLHours * 3600 * TicksPerSec
MaxNow == TokenTTL + MaxSkew
Jumps == {1, TokenTTL - 2}

JwtSecret == "secret"

(* time.Time.Unix(): whole seconds, the fraction dropped                   *)
Unix(t) == t \div TicksPerSec

(* The HS256 signature: it binds the claims to the key.                    *)
Sign(email, exp, key) == <<email, exp, key>>

GenerateJWTMinutes(secret, email, t) ==
    LET exp == Unix(t + TokenTTLHours * 60 * TicksPerSec)
    IN  [email |-> email, exp |-> exp, sig |-> Sign(email, exp, secret)]

GenerateJWT(secret, email, t) ==
    LET exp == Unix(t + TokenTTL)
    IN  [email |-> email, exp |-> exp, sig |-> Sign(email, exp, secret)]

(* jwt.Parse with the key function returning the secret: the text must be *)
(* a JWT, the signature must verify under the secret, and the time must   *)
(* be before exp.                                                         *)
ValidateJWT(secret, tokenStr, t) ==
    IF /\ tokenStr.kind = "jwt"
       /\ tokenStr.tok.sig = Sign(tokenStr.tok.email, tokenStr.tok.exp, secret)
       /\ t < tokenStr.tok.exp * TicksPerSec
    THEN [err |-> "nil", email |-> tokenStr.tok.email]
    ELSE [err |-> "invalid or expired token", email |-> ""]

ExtractBearerToken(authHeader) ==
    IF authHeader.prefix = "Bearer " THEN authHeader.rest ELSE EmptyStr

(* The middleware: what it answers, or that it calls c.Next().             *)
RequireAuth(authHeader, t) ==
    LET tokenStr == ExtractBearerToken(authHeader)
        v == ValidateJWT(JwtSecret, tokenStr, t)
    IN  IF tokenStr = EmptyStr
        THEN [next |-> FALSE, email |-> "",
              resp |-> [status |-> StatusUnauthorized,
                        body |-> "Missing or malformed token", token |-> NoTok]]
        ELSE IF v.err # "nil"
        THEN [next |-> FALSE, email |-> "",
              resp |-> [status |-> StatusUnauthorized, body |-> v.err, token |-> NoTok]]
        ELSE [next |-> TRUE, email |-> v.email, resp |-> NoLoginResp]

StackAuthLast ==
    << [use |-> FALSE, method |-> "POST", path |-> "/api/auth/login",
        h |-> "LoginWithUserService"],
       [use |-> FALSE, method |-> "POST", path |-> "/api/products", h |-> "CreateProduct"],
       [use |-> FALSE, method |-> "GET", path |-> "/api/products", h |-> "GetAllProducts"],
       [use |-> TRUE, method |-> "", path |-> "/api", h |-> "RequireAuth"] >>

(* The handler stack in the order StartServer registers it.                *)
Stack ==
    << [use |-> FALSE, method |-> "POST", path |-> "/api/auth/login",
        h |-> "LoginWithUserService"],
       [use |-> TRUE, method |-> "", path |-> "/api", h |-> "RequireAuth"],
       [use |-> FALSE, method |-> "POST", path |-> "/api/products", h |-> "CreateProduct"],
       [use |-> FALSE, method |-> "GET", path |-> "/api/products", h |-> "GetAllProducts"] >>

Routes == { [method |-> "POST", path |-> "/api/auth/login"],
            [method |-> "POST", path |-> "/api/products"],
            [method |-> "GET", path |-> "/api/products"] }

HasPathPrefix(path, prefix) ==
    prefix = "/api" /\ path \in {"/api/auth/login", "/api/products", "/api/users/me"}

Matches(e, req) ==
    IF e.use THEN HasPathPrefix(req.path, e.path)
    ELSE e.method = req.method /\ e.path = req.path

(* The handlers invoked for a request, in order: the router walks the     *)
(* stack from entry i, and goes past an entry only if it does not match   *)
(* or it is the middleware calling c.Next().                              *)
RECURSIVE HandlersRun(_, _, _, _)
HandlersRun(stack, i, req, t) ==
    IF i > Len(stack) THEN <<>>
    ELSE IF ~Matches(stack[i], req) THEN HandlersRun(stack, i + 1, req, t)
    ELSE IF stack[i].h = "RequireAuth" /\ RequireAuth(req.auth, t).next
    THEN <<"RequireAuth">> \o HandlersRun(stack, i + 1, req, t)
    ELSE <<stack[i].h>>

LoginNames == {"admin", "admin@luxtrack.com", "bob", " bob ", "eve"}

TrimSpace(name) == IF name = " bob " THEN "bob" ELSE name

(* A NULL column; row.Scan cannot store it in a Go string.                 *)
Null == ""
ScanFails(row) == row.created_by = Null \/ row.updated_by = Null

(* password.Verify                                                         *)
Verify(plain, hash) == hash.plain = plain

(* userService.Authenticate: the possible results; with several rows of   *)
(* one username QueryRow scans whichever the store returns first.         *)
Authenticate(username, plain) ==
    LET ids == {id \in DOMAIN users : users[id].username = username}
    IN  IF ids = {}
        THEN {[err |-> "sql: no rows in result set", username |-> "", id |-> ""]}
        ELSE {IF ScanFails(users[id])
              THEN [err |-> "sql: Scan error", username |-> "", id |-> ""]
              ELSE IF ~Verify(plain, users[id].password_hash)
              THEN [err |-> "invalid credentials", username |-> "", id |-> ""]
              ELSE [err |-> "nil", username |-> users[id].username, id |-> id] : id \in ids}

LoginResponseEchoingError(out, t) ==
    IF out.err # "nil"
    THEN [status |-> StatusUnauthorized, body |-> out.err, token |-> NoTok]
    ELSE [status |-> StatusOK, body |-> "token, user",
          token |-> GenerateJWT(JwtSecret, out.username, t)]

(* The response LoginWithUserService builds from Authenticate's result.    *)
LoginResponse(out, t) ==
    IF out.err # "nil"
    THEN [status |-> StatusUnauthorized, body |-> "invalid credentials", token |-> NoTok]
    ELSE [status |-> StatusOK, body |-> "token, user",
          token |-> GenerateJWT(JwtSecret, out.username, t)]

(* What a client may put after the scheme: nothing, text that is no JWT,  *)
(* a token it was issued, that token re-signed with another key, or that  *)
(* token with its expiry pushed out under the old signature.              *)
TokenStrs ==
    {EmptyStr, GarbageStr}
      \cup {JwtStr(i.tok) : i \in tokens}
      \cup {JwtStr([i.tok EXCEPT !.sig = Sign(i.tok.email, i.tok.exp, "other")]) : i \in tokens}
      \cup {JwtStr([i.tok EXCEPT !.exp = i.tok.exp + TokenTTL]) : i \in tokens}

AuthHeaders ==
    {NoHeader} \cup [prefix : {"Bearer ", "bearer "}, rest : TokenStrs]

LoginBodies == [username : LoginNames, password : {"admin123", "wrong"}]

Exchange(req, ran, authErr, rsp) ==
    [method |-> req.method, path |-> req.path, auth |-> req.auth, body |-> req.body,
     ran |-> ran, authErr |-> authErr, resp |-> rsp]

Last(q) == IF q = <<>> THEN "none" ELSE q[Len(q)]

(* A request the middleware answers itself.                                *)
Unauthorized(req) ==
    /\ Last(HandlersRun(Stack, 1, req, now)) = "RequireAuth"
    /\ http' = Exchange(req, HandlersRun(Stack, 1, req, now), "nil",
                        RequireAuth(req.auth, now).resp)
    /\ UNCHANGED <<sideVars, storeVars, pc, op, txopen, txbuf, step, raised, result, resp,
                   formError, issued, now, tokens, reply>>

(* The "user" object of the login response: fiber.Map with id, username,  *)
(* role and email of the authenticated row.                               *)
LoginUserWithHash(id) ==
    [id |-> id, username |-> users[id].username, role |-> users[id].role,
     password_hash |-> users[id].password_hash]

LoginUser(id) ==
    [id |-> id, username |-> users[id].username, role |-> users[id].role]

LoginReply(out) ==
    IF out.err # "nil"
    THEN [h |-> "LoginWithUserService", id |-> "", status |-> StatusUnauthorized,
          body |-> "invalid credentials", users |-> {}]
    ELSE [h |-> "LoginWithUserService", id |-> out.id, status |-> StatusOK,
          body |-> "token, user", users |-> {LoginUser(out.id)}]

LoginWithUserService(req) ==
    /\ Last(HandlersRun(Stack, 1, req, now)) = "LoginWithUserService"
    /\ \E out \in Authenticate(TrimSpace(req.body.username), req.body.password) :
          LET rsp == LoginResponse(out, now)
              grant == [tok |-> rsp.token, at |-> now, user |-> out.username]
          IN  /\ http' = Exchange(req, HandlersRun(Stack, 1, req, now), out.err, rsp)
              /\ reply' = LoginReply(out)
              /\ IF out.err = "nil"
                 THEN /\ Cardinality(tokens \cup {grant}) <= MaxTokens
                      /\ tokens' = tokens \cup {grant}
                 ELSE UNCHANGED tokens
    /\ UNCHANGED <<sideVars, storeVars, pc, op, txopen, txbuf, step, raised, result, resp,
                   formError, issued, now>>

GetAllProducts(req) ==
    /\ Last(HandlersRun(Stack, 1, req, now)) = "GetAllProducts"
    /\ http' = Exchange(req, HandlersRun(Stack, 1, req, now), "nil",
                        [status |-> StatusOK, body |-> "products", token |-> NoTok])
    /\ UNCHANGED <<sideVars, storeVars, pc, op, txopen, txbuf, step, raised, result, resp,
                   formError, issued, now, tokens, reply>>

(* The handler hands the parsed product to the service; the response      *)
(* follows when the service call returns.                                 *)
CreateProduct(req, r, p) ==
    /\ Last(HandlersRun(Stack, 1, req, now)) = "CreateProduct"
    /\ pc[r] = "idle"
    /\ http' = Exchange(req, HandlersRun(Stack, 1, req, now), "nil", NoLoginResp)
    /\ op' = [op EXCEPT ![r] = [kind |-> "product_create", p |-> p]]
    /\ pc' = [pc EXCEPT ![r] = "begin"]
    /\ UNCHANGED <<sideVars, storeVars, txopen, txbuf, step, raised, result, resp,
                   formError, issued, now, tokens, reply>>

(* The clock advances; the instants looked at are those up to MaxSkew     *)
(* ticks after the start and those around one token lifetime later.       *)
Tick(d) ==
    /\ \/ now + d <= MaxSkew
       \/ now + d >= TokenTTL - 2 /\ now + d <= MaxNow
    /\ now' = now + d
    /\ UNCHANGED <<sideVars, storeVars, pc, op, txopen, txbuf, step, raised, result, resp,
                   formError, issued, tokens, http, reply>>

LoginRequests ==
    {[method |-> "POST", path |-> "/api/auth/login", auth |-> NoHeader, body |-> b] :
        b \in LoginBodies}

ProductRequests ==
    {[method |-> m, path |-> "/api/products", auth |-> h, body |-> NoBody] :
        m \in {"GET", "POST"}, h \in AuthHeaders}

NewProducts == {[id |-> "p3", code |-> "c3", status_id |-> Available]}

(* The users table when the server starts serving: the seeded row alone,  *)
(* or with a user that userService.Create has added, under a name of its  *)
(* own or under the seeded row's name.                                    *)
CreatedUser(name) ==
    "u2" :> [username |-> name, password_hash |-> BcryptOf("admin123"),
             role |-> "staff", created_by |-> "u1", updated_by |-> "u1"]

AuthUserTables == {SeedUsers} \cup {CreatedUser(name) @@ SeedUsers : name \in Usernames}

InitAuth ==
    /\ users \in AuthUserTables
    /\ products = SeedProducts
    /\ transactions = <<>>
    /\ details = {}
    /\ pc = [r \in Reqs |-> "idle"]
    /\ op = [r \in Reqs |-> NoOp]
    /\ txopen = [r \in Reqs |-> FALSE]
    /\ txbuf = [r \in Reqs |-> <<>>]
    /\ step = [r \in Reqs |-> 0]
    /\ raised = [r \in Reqs |-> "nil"]
    /\ result = [r \in Reqs |-> "nil"]
    /\ resp = [r \in Reqs |-> NoResp]
    /\ formError = [r \in Reqs |-> ""]
    /\ issued = 0
    /\ now = 0
    /\ tokens = {}
    /\ http = NoExchange
    /\ logs = {}
    /\ reply = NoReply
    /\ customers = <<>>
    /\ sources = <<>>
    /\ OffStage

NextAuth ==
    \/ \E d \in Jumps : Tick(d)
    \/ \E req \in LoginRequests : LoginWithUserService(req)
    \/ \E req \in ProductRequests :
          \/ Unauthorized(req)
          \/ GetAllProducts(req)
          \/ \E r \in Reqs, p \in NewProducts : CreateProduct(req, r, p)
    \/ \E r \in Reqs :
          \/ BeginTx(r)
          \/ ProductRepositoryInsert(r)
          \/ Commit(r)

SpecAuth == InitAuth /\ [][NextAuth]_vars

(* ---------------------------------------------------------------------- *)
(* The handlers of the user endpoints                                     *)
(* ---------------------------------------------------------------------- *)
(* A JSON object is a function from the names of the fields it carries;   *)
(* c.BodyParser leaves the Go zero value in a field the body lacks, and   *)
(* fails on text that is no JSON.                                         *)
Malformed == "malformed" :> ""

IsMalformed(body) == "malformed" \in DOMAIN body

Field(body, f) == IF f \in DOMAIN body THEN body[f] ELSE ""

CreateUserBodies ==
    { [username |-> "bob", password |-> "admin123", role |-> "staff"],
      [password |-> "admin123", role |-> "staff"],
      [username |-> "bob", role |-> "staff"],
      Malformed }

UpdateUserBodies ==
    { [id |-> "u2", username |-> "bob", role |-> "staff"],
      [id |-> "u2", role |-> "admin"],
      [id |-> "u1", username |-> "root"],
      [username |-> "bob", role |-> "staff"],
      Malformed }

(* c.Params("id")                                                          *)
IdParams == {"u1", "u2"}

BadRequest(r, message) ==
    /\ pc[r] = "idle"
    /\ op' = [op EXCEPT ![r] = [kind |-> "bad_request"]]
    /\ pc' = [pc EXCEPT ![r] = "done"]
    /\ resp' = [resp EXCEPT ![r] = JSONError(StatusBadRequest, message)]
    /\ UNCHANGED <<sideVars, storeVars, txopen, txbuf, step, raised, result, formError, issued,
                   authVars>>

(* email is c.Locals("email"): the name RequireAuth took from the token.   *)
CreateUser(r, body, email) ==
    IF IsMalformed(body)
    THEN BadRequest(r, "invalid payload")
    ELSE UserServiceCreate(r, [username |-> Field(body, "username"),
                               role |-> Field(body, "role"), by |-> email],
                           Field(body, "password"))

UpdateUser(r, body, email) ==
    IF IsMalformed(body)
    THEN BadRequest(r, "invalid payload")
    ELSE UserServiceUpdate(r, Field(body, "id"),
                           [username |-> Field(body, "username"),
                            role |-> Field(body, "role"), by |-> email])

DeleteUser(r, id) ==
    IF id = "" THEN BadRequest(r, "missing id") ELSE UserServiceDelete(r, id)

(* encoding/json of model.User: PasswordHash is tagged json:"-", and      *)
(* created_by and updated_by are left out when empty.                     *)
MarshalUser(id, row) ==
    [f \in {"id", "username", "role"}
          \cup (IF row.created_by = "" THEN {} ELSE {"created_by"})
          \cup (IF row.updated_by = "" THEN {} ELSE {"updated_by"})
       |-> IF f = "id" THEN id ELSE row[f]]

(* userRepository.FindByID on the pool: the committed row, or an error.    *)
FindByID(id) ==
    IF ~IsUUID(id) THEN [err |-> "invalid_uuid", id |-> id]
    ELSE IF id \notin DOMAIN users THEN [err |-> "sql: no rows in result set", id |-> id]
    ELSE IF ScanFails(users[id]) THEN [err |-> "sql: Scan error", id |-> id]
    ELSE [err |-> "nil", id |-> id]

(* The handler blanks the hash in the stored row instead of in its copy.   *)
GetUserByIDBlankingRow(id) ==
    /\ reply' = [h |-> "GetUserByID", id |-> id, status |-> StatusOK, body |-> "",
                 users |-> {}]
    /\ id \in DOMAIN users
    /\ users' = [users EXCEPT ![id].password_hash = BcryptOf("")]
    /\ UNCHANGED <<sideVars, products, transactions, details, logs, customers, sources,
                   pc, op, txopen, txbuf, step, raised, result, resp,
                   formError, issued, now, tokens, http>>

GetUserByID(id) ==
    /\ reply' = IF id = ""
                THEN [h |-> "GetUserByID", id |-> id, status |-> StatusBadRequest,
                      body |-> "missing id", users |-> {}]
                ELSE IF FindByID(id).err # "nil"
                THEN [h |-> "GetUserByID", id |-> id, status |-> StatusNotFound,
                      body |-> "user not found", users |-> {}]
                ELSE [h |-> "GetUserByID", id |-> id, status |-> StatusOK,
                      body |-> "", users |-> {MarshalUser(id, users[id])}]
    /\ UNCHANGED <<sideVars, storeVars, pc, op, txopen, txbuf, step, raised, result, resp,
                   formError, issued, now, tokens, http>>

(* ORDER BY created_at DESC: the seeded row is the oldest.                 *)
ByCreatedAtDesc == <<"u3", "u2", "u1">>

Page(limit, offset) ==
    LET all == SelectSeq(ByCreatedAtDesc, LAMBDA id : id \in DOMAIN users)
        lim == IF limit <= 0 THEN 50 ELSE limit
    IN  SubSeq(all, offset + 1, IF offset + lim < Len(all) THEN offset + lim ELSE Len(all))

ListUsers(limit, offset) ==
    /\ LET page == Page(limit, offset)
       IN  reply' =
             IF \E k \in 1..Len(page) : ScanFails(users[page[k]])
             THEN [h |-> "ListUsers", id |-> "", status |-> StatusInternalServerError,
                   body |-> "sql: Scan error", users |-> {}]
             ELSE [h |-> "ListUsers", id |-> "", status |-> StatusOK, body |-> "",
                   users |-> {MarshalUser(page[k], users[page[k]]) : k \in 1..Len(page)}]
    /\ UNCHANGED <<sideVars, storeVars, pc, op, txopen, txbuf, step, raised, result, resp,
                   formError, issued, now, tokens, http>>

(* The users table when the user endpoints are first called: the seeded   *)
(* row, alone or with a row userService.Create has added.                 *)
InitUser ==
    /\ users \in {SeedUsers, CreatedUser("bob") @@ SeedUsers}
    /\ issued = IF "u2" \in DOMAIN users THEN 1 ELSE 0
    /\ products = SeedProducts
    /\ transactions = <<>>
    /\ details = {}
    /\ logs = {}
    /\ pc = [r \in Reqs |-> "idle"]
    /\ op = [r \in Reqs |-> NoOp]
    /\ txopen = [r \in Reqs |-> FALSE]
    /\ txbuf = [r \in Reqs |-> <<>>]
    /\ step = [r \in Reqs |-> 0]
    /\ raised = [r \in Reqs |-> "nil"]
    /\ result = [r \in Reqs |-> "nil"]
    /\ resp = [r \in Reqs |-> NoResp]
    /\ formError = [r \in Reqs |-> ""]
    /\ now = 0
    /\ tokens = {}
    /\ http = NoExchange
    /\ reply = NoReply
    /\ customers = <<>>
    /\ sources = <<>>
    /\ OffStage

UserLogins ==
    {req \in LoginRequests :
        req.body \in {[username |-> "bob", password |-> "admin123"],
                      [username |-> "admin", password |-> "admin123"]}}

NextUser ==
    \/ \E r \in Reqs, body \in CreateUserBodies, email \in Actors : CreateUser(r, body, email)
    \/ \E r \in Reqs, body \in UpdateUserBodies, email \in Actors : UpdateUser(r, body, email)
    \/ \E r \in Reqs, id \in IdParams : DeleteUser(r, id)
    \/ \E id \in IdParams : GetUserByID(id)
    \/ \E limit \in {0, 1}, offset \in {0, 1} : ListUsers(limit, offset)
    \/ \E req \in UserLogins : LoginWithUserService(req)
    \/ \E r \in Reqs :
          \/ BeginTx(r)
          \/ BeginTxFail(r)
          \/ UserRepositoryInsert(r)
          \/ UserRepositoryUpdate(r)
          \/ UserRepositoryDelete(r)
          \/ StoreFault(r)
          \/ Commit(r)
          \/ CommitFail(r)

SpecUser == InitUser /\ [][NextUser]_vars

(* ---------------------------------------------------------------------- *)
(* Audit logs                                                             *)
(* ---------------------------------------------------------------------- *)
(* A row of product_logs or user_logs: its id, the table, the product or  *)
(* user it references, and the action it records.                         *)
LogInputs ==
    [id : {"l1", "l2"}, table : {"product_logs"}, subject : {"p1"}, action : {"updated"}]
      \cup [id : {"l1", "l2"}, table : {"user_logs"}, subject : {"u2"}, action : {"updated"}]

(* An operation records what it did: one row appended to a log table.      *)
WriteLog(r, l) == Call(r, [kind |-> "log_create", l |-> l])

LogRepositoryInsert(r) ==
    /\ pc[r] = "exec"
    /\ op[r].kind = "log_create"
    /\ LET l == op[r].l
           w == [t |-> "ins_log", id |-> l.id, row |-> l]
           S == View(r)
       IN  /\ ~Blocked(r, w)
           /\ IF \E x \in S.logs : x.id = l.id /\ x.table = l.table
              THEN ReturnErr(r, "unique_violation")
              ELSE IF l.subject \notin (DOMAIN S.products \cup DOMAIN S.users)
              THEN ReturnErr(r, "fk_violation")
              ELSE Executed(r, <<w>>, "commit")

(* The request is over; the server takes the next one.                    *)
NextRequest(r) ==
    /\ pc[r] = "done"
    /\ pc' = [pc EXCEPT ![r] = "idle"]
    /\ op' = [op EXCEPT ![r] = NoOp]
    /\ step' = [step EXCEPT ![r] = 0]
    /\ raised' = [raised EXCEPT ![r] = "nil"]
    /\ result' = [result EXCEPT ![r] = "nil"]
    /\ resp' = [resp EXCEPT ![r] = NoResp]
    /\ UNCHANGED <<sideVars, storeVars, txopen, txbuf, formError, issued, authVars>>

LogUserInputs == {[username |-> "bob", role |-> "admin", by |-> "u1"]}

LogProductInputs == {[id |-> "p1", code |-> "c1", status_id |-> Sold]}

NextLog ==
    \E r \in Reqs :
        \/ \E l \in LogInputs : WriteLog(r, l)
        \/ \E u \in LogUserInputs : UserServiceUpdate(r, "u2", u)
        \/ UserServiceDelete(r, "u2")
        \/ \E p \in LogProductInputs : ProductServiceUpdate(r, p)
        \/ ProductServiceDelete(r, "p1")
        \/ BeginTx(r)
        \/ NextRequest(r)
        \/ LogRepositoryInsert(r)
        \/ UserRepositoryUpdate(r)
        \/ UserRepositoryDelete(r)
        \/ ProductRepositoryUpdate(r)
        \/ ProductRepositoryDelete(r)
        \/ StoreFault(r)
        \/ Commit(r)
        \/ CommitFail(r)

SpecLog == InitUser /\ [][NextLog]_vars

(* ---------------------------------------------------------------------- *)
(* Read endpoints: lists, product details and the dashboard               *)
(* ---------------------------------------------------------------------- *)
CustomerRows == ("k1" :> [name |-> "Ann"]) @@ ("k2" :> [name |-> "Ben"])
SourceRows == ("s1" :> [name |-> "Estate", source_type |-> "estate_sale"])
           @@ ("s2" :> [name |-> "Carl", source_type |-> "consigner"])

(* POST /api/customers and POST /api/sources: one row inserted.            *)
CreateCustomer(k) ==
    /\ k \notin DOMAIN customers
    /\ customers' = (k :> CustomerRows[k]) @@ customers
    /\ UNCHANGED <<users, products, transactions, details, logs, sources, pc, op, txopen,
                   txbuf, step, raised, result, resp, formError, issued, authVars, sideVars>>

CreateSource(x) ==
    /\ x \notin DOMAIN sources
    /\ sources' = (x :> SourceRows[x]) @@ sources
    /\ UNCHANGED <<users, products, transactions, details, logs, customers, pc, op, txopen,
                   txbuf, step, raised, result, resp, formError, issued, authVars, sideVars>>

(* A read request changes rd and nothing else.                             *)
Reads(next) ==
    /\ rd' = next
    /\ UNCHANGED <<storeVars, pc, op, txopen, txbuf, step, raised, result, resp,
                   formError, issued, authVars, notRead>>

NoStats == [total_products |-> -1, total_customers |-> -1, total_sources |-> -1]

(* Dashboard.fetchStats: GET /api/dashboard/stats.                         *)
fetchStats ==
    /\ rd.kind = "none"
    /\ Reads([kind |-> "stats", step |-> 1, status |-> 0, out |-> NoStats])

(* The products that may be sold.                                          *)
AvailableProducts(S) ==
    Cardinality({id \in DOMAIN S.products : S.products[id].status_id = Available})

(* The aggregate queries of the stats endpoint, one after the other.       *)
TotalProducts(S) == Cardinality(DOMAIN S.products)

StatsCountProducts ==
    /\ rd.kind = "stats" /\ rd.step = 1
    /\ Reads([rd EXCEPT !.out.total_products = TotalProducts(Store), !.step = 2])

StatsCountCustomers ==
    /\ rd.kind = "stats" /\ rd.step = 2
    /\ Reads([rd EXCEPT !.out.total_customers = Cardinality(DOMAIN customers), !.step = 3])

StatsCountSources ==
    /\ rd.kind = "stats" /\ rd.step = 3
    /\ Reads([rd EXCEPT !.out.total_sources = Cardinality(DOMAIN sources),
                        !.step = 4, !.status = StatusOK])

(* A query of the read request fails: the endpoint answers with an error.  *)
ReadFault ==
    /\ rd.kind \in {"stats", "details"} /\ rd.step \in 1..3
    /\ Reads([rd EXCEPT !.step = 4, !.status = StatusInternalServerError])

NoDetails == [product |-> NoRow, source |-> <<>>, logs |-> {}, transactions |-> {}]

(* Products.handleProductClick: GET /api/products/{id}/details.            *)
handleProductClick(id) ==
    /\ rd.kind = "none"
    /\ Reads([kind |-> "details", id |-> id, step |-> 0, status |-> 0, out |-> NoDetails])

(* The source row a product row names, <<>> when it names none.            *)
SourceOf(row) ==
    IF row.source_id \in DOMAIN sources
    THEN (row.source_id :> sources[row.source_id]) ELSE <<>>

(* The join left out: every transaction.                                  *)
TransactionsOfAny(id) == DOMAIN transactions

(* The transactions with a line item of product id.                        *)
TransactionsOf(id) ==
    {t \in DOMAIN transactions :
        \E d \in details : d.transaction_id = t /\ d.product_id = id}

DetailsFetchProduct ==
    /\ rd.kind = "details" /\ rd.step = 0
    /\ IF rd.id \in DOMAIN products
       THEN Reads([rd EXCEPT !.out.product = products[rd.id], !.step = 1])
       ELSE Reads([rd EXCEPT !.step = 4, !.status = StatusNotFound])

DetailsFetchSource ==
    /\ rd.kind = "details" /\ rd.step = 1
    /\ Reads([rd EXCEPT !.out.source = SourceOf(rd.out.product), !.step = 2])

DetailsFetchLogs ==
    /\ rd.kind = "details" /\ rd.step = 2
    /\ Reads([rd EXCEPT !.out.logs = {l \in logs : l.table = "product_logs" /\ l.subject = rd.id},
                        !.step = 3])

DetailsFetchTransactions ==
    /\ rd.kind = "details" /\ rd.step = 3
    /\ Reads([rd EXCEPT !.out.transactions = TransactionsOf(rd.id),
                        !.step = 4, !.status = StatusOK])

(* GET /api/products: productService.FindAll, one SELECT on the pool.      *)
FindAll ==
    /\ rd.kind = "none"
    /\ Reads([kind |-> "products", step |-> 4, status |-> StatusOK, out |-> products])

(* The client has the response; the next read may start.                   *)
ReadDone ==
    /\ rd.kind # "none" /\ rd.step = 4
    /\ Reads(NoRead)

(* The store when the read endpoints are called: a product with a source   *)
(* and one without, a customer, a source, and nothing sold yet.            *)
InitRead ==
    /\ users = CreatedUser("bob") @@ SeedUsers
    /\ issued = 1
    /\ products = [SeedProducts EXCEPT !["p1"].source_id = "s1"]
    /\ transactions = <<>>
    /\ details = {}
    /\ logs = {}
    /\ customers = ("k1" :> CustomerRows["k1"])
    /\ sources = ("s1" :> SourceRows["s1"])
    /\ pc = [r \in Reqs |-> "idle"]
    /\ op = [r \in Reqs |-> NoOp]
    /\ txopen = [r \in Reqs |-> FALSE]
    /\ txbuf = [r \in Reqs |-> <<>>]
    /\ step = [r \in Reqs |-> 0]
    /\ raised = [r \in Reqs |-> "nil"]
    /\ result = [r \in Reqs |-> "nil"]
    /\ resp = [r \in Reqs |-> NoResp]
    /\ formError = [r \in Reqs |-> ""]
    /\ now = 0
    /\ tokens = {}
    /\ http = NoExchange
    /\ reply = NoReply
    /\ OffStage

ReadItems == {<<[product_id |-> "p1", quantity |-> 2, unit_price |-> 3]>>}
ReadLogs == {[id |-> "l1", table |-> "product_logs", subject |-> "p1", action |-> "updated"]}
ReadNewProducts == {[id |-> "p3", code |-> "c3", status_id |-> Available]}

NextRead ==
    \/ fetchStats
    \/ StatsCountProducts
    \/ StatsCountCustomers
    \/ StatsCountSources
    \/ \E id \in {"p1", "p2", "p3"} : handleProductClick(id)
    \/ DetailsFetchProduct
    \/ DetailsFetchSource
    \/ DetailsFetchLogs
    \/ DetailsFetchTransactions
    \/ ReadFault
    \/ FindAll
    \/ ReadDone
    \/ \E id \in IdParams : GetUserByID(id)
    \/ \E limit \in {0, 1} : ListUsers(limit, 0)
    \/ CreateCustomer("k2")
    \/ CreateSource("s2")
    \/ \E r \in Reqs :
        \/ \E sel \in ReadItems : handleSubmit(r, "sale", sel)
        \/ \E l \in ReadLogs : WriteLog(r, l)
        \/ \E p \in ReadNewProducts : ProductServiceCreate(r, p)
        \/ ProductServiceDelete(r, "p2")
        \/ BeginTx(r)
        \/ InsertHeader(r)
        \/ InsertLineItem(r)
        \/ UpdateProductStatus(r)
        \/ LogRepositoryInsert(r)
        \/ ProductRepositoryInsert(r)
        \/ ProductRepositoryDelete(r)
        \/ StoreFault(r)
        \/ Commit(r)

SpecRead == InitRead /\ [][NextRead]_vars

(* ---------------------------------------------------------------------- *)
(* Package config: the configuration loaded once                          *)
(* ---------------------------------------------------------------------- *)
(* Values the environment may hold; "" is an unset variable.               *)
Envs == [DB_PORT : {"", "5433", "abc"}, APP_PORT : {"", "9090"}]

(* getEnv: the fallback for a variable that is unset or empty.             *)
getEnv(key, fallback) == IF env[key] = "" THEN fallback ELSE env[key]

(* strconv.Atoi on the texts above: the number, or -1 for an error.        *)
Atoi(text) ==
    CASE text = "5432" -> 5432
      [] text = "5433" -> 5433
      [] OTHER -> -1

(* The server with its seeded products and no request in flight.          *)
NoRequests ==
    /\ products = SeedProducts
    /\ transactions = <<>>
    /\ details = {}
    /\ logs = {}
    /\ customers = <<>>
    /\ sources = <<>>
    /\ pc = [r \in Reqs |-> "idle"]
    /\ op = [r \in Reqs |-> NoOp]
    /\ txopen = [r \in Reqs |-> FALSE]
    /\ txbuf = [r \in Reqs |-> <<>>]
    /\ step = [r \in Reqs |-> 0]
    /\ raised = [r \in Reqs |-> "nil"]
    /\ result = [r \in Reqs |-> "nil"]
    /\ resp = [r \in Reqs |-> NoResp]
    /\ formError = [r \in Reqs |-> ""]
    /\ issued = 0
    /\ now = 0
    /\ http = NoExchange
    /\ reply = NoReply

(* The state every variable of the server keeps while only package config *)
(* runs.                                                                   *)
Quiet ==
    /\ users = SeedUsers
    /\ tokens = {}
    /\ NoRequests

serverVars == <<storeVars, pc, op, txopen, txbuf, step, raised, result, resp,
                formError, issued, authVars>>

(* once.Do runs f although the Once is done.                              *)
MustRunAlways(o) == TRUE

(* once.Do: f still has to run.                                            *)
MustRun(o) == ~o.done

At(c, where) == callers[c].pc = where

Goto(c, where) == callers' = [callers EXCEPT ![c].pc = where]

(* config.Get() or config.LoadConfig(), which only calls Get.              *)
Get(c) ==
    /\ At(c, "idle")
    /\ Goto(c, "do")
    /\ UNCHANGED <<serverVars, notConfig, env, cfg, once, returned>>

(* once.Do with nothing to run: straight to return cfg.                    *)
DoDone(c) ==
    /\ At(c, "do")
    /\ ~MustRun(once)
    /\ Goto(c, "return")
    /\ UNCHANGED <<serverVars, notConfig, env, cfg, once, returned>>

(* once.Do with f still to run: on to doSlow.                              *)
DoSlow(c) ==
    /\ At(c, "do")
    /\ MustRun(once)
    /\ Goto(c, "lock")
    /\ UNCHANGED <<serverVars, notConfig, env, cfg, once, returned>>

(* doSlow takes the mutex; a second caller waits for it.                   *)
DoLock(c) ==
    /\ At(c, "lock")
    /\ once.m = ""
    /\ once' = [once EXCEPT !.m = c]
    /\ Goto(c, "recheck")
    /\ UNCHANGED <<serverVars, notConfig, env, cfg, returned>>

(* With the mutex held, done is looked at again.                           *)
DoRecheck(c) ==
    /\ At(c, "recheck")
    /\ IF MustRun(once)
       THEN Goto(c, "load") /\ UNCHANGED once
       ELSE Goto(c, "return") /\ once' = [once EXCEPT !.m = ""]
    /\ UNCHANGED <<serverVars, notConfig, env, cfg, returned>>

(* load: DB_PORT is read and parsed; log.Fatal ends the process.           *)
LoadDBPort(c) ==
    /\ At(c, "load")
    /\ LET dbPort == Atoi(getEnv("DB_PORT", "5432"))
       IN  IF dbPort = -1
           THEN callers' = [x \in Callers |-> [callers[x] EXCEPT !.pc = "exited"]]
           ELSE callers' = [callers EXCEPT ![c].pc = "rest", ![c].dbPort = dbPort]
    /\ UNCHANGED <<serverVars, notConfig, env, cfg, once, returned>>

(* load: the other variables are read; cfg is set and the Once is done.    *)
LoadRest(c) ==
    /\ At(c, "rest")
    /\ cfg' = [DBPort |-> callers[c].dbPort, AppPort |-> getEnv("APP_PORT", "8080")]
    /\ once' = [done |-> TRUE, m |-> ""]
    /\ Goto(c, "return")
    /\ UNCHANGED <<serverVars, notConfig, env, returned>>

(* return cfg                                                              *)
ReturnCfg(c) ==
    /\ At(c, "return")
    /\ returned' = returned \cup {cfg}
    /\ Goto(c, "idle")
    /\ UNCHANGED <<serverVars, notConfig, env, cfg, once>>

(* os.Setenv somewhere in the process, or the operator's shell.            *)
Setenv(e) ==
    /\ env # e
    /\ \A c \in Callers : ~At(c, "exited")
    /\ env' = e
    /\ UNCHANGED <<serverVars, notConfig, cfg, once, callers, returned>>

InitCfg ==
    /\ Quiet
    /\ rd = NoRead
    /\ PageClosed
    /\ NotBooted
    /\ FormEmpty
    /\ env \in Envs
    /\ ConfigUnloaded

NextCfg ==
    \/ \E e \in Envs : Setenv(e)
    \/ \E c \in Callers :
        \/ Get(c)
        \/ DoDone(c)
        \/ DoSlow(c)
        \/ DoLock(c)
        \/ DoRecheck(c)
        \/ LoadDBPort(c)
        \/ LoadRest(c)
        \/ ReturnCfg(c)

SpecCfg == InitCfg /\ [][NextCfg]_vars

(* ---------------------------------------------------------------------- *)
(* The browser: AuthProvider and the requests it sends                    *)
(* ---------------------------------------------------------------------- *)
(* The value of a property an object does not have.                       *)
Undefined == [kind |-> "undefined", tok |-> NoTok]

Prop(obj, key) == IF key \in DOMAIN obj THEN obj[key] ELSE Undefined

(* String(v), as localStorage.setItem and a template literal apply it:    *)
(* undefined becomes the text "undefined", which is no JWT.               *)
ToText(v) == IF v = Undefined THEN GarbageStr ELSE v

(* if (token): null and the empty text are falsy.                          *)
Truthy(item) == item.kind \notin {"null", "empty"}

Bearer(text) == [prefix |-> "Bearer ", rest |-> text]

(* A request of the page that has not been answered yet.                   *)
Sent(kind, method, path, headers, body) ==
    [kind |-> kind, answered |-> FALSE, status |-> 0, data |-> <<>>,
     req |-> [method |-> method, path |-> path, auth |-> headers, body |-> body]]

(* AuthProvider's effect on mount.                                         *)
useEffect ==
    /\ loading /\ call = NoCall
    /\ IF Truthy(storage)
       THEN /\ axiosAuth' = Bearer(storage)
            /\ call' = Sent("fetchUserInfo", "GET", "/api/users/me", Bearer(storage), <<>>)
            /\ UNCHANGED loading
       ELSE /\ loading' = FALSE
            /\ UNCHANGED <<axiosAuth, call>>
    /\ UNCHANGED <<serverVars, notClient, storage, user>>

(* The page is loaded anew: localStorage is all that is kept.              *)
Reload ==
    /\ ~(loading /\ call = NoCall)
    /\ axiosAuth' = NoHeader
    /\ user' = NoUser
    /\ loading' = TRUE
    /\ call' = NoCall
    /\ UNCHANGED <<serverVars, notClient, storage>>

(* login, first half: the Login form is on screen, the request goes out.   *)
login(email, password) ==
    /\ ~loading /\ user = NoUser /\ call = NoCall
    /\ call' = Sent("login", "POST", "/api/auth/login", axiosAuth,
                    ("email" :> email) @@ ("password" :> password))
    /\ UNCHANGED <<serverVars, notClient, storage, axiosAuth, user, loading>>

(* A component of the logged-in page fetches its list.                     *)
fetchProducts ==
    /\ user # NoUser /\ call = NoCall
    /\ call' = Sent("fetchProducts", "GET", "/api/products", axiosAuth, <<>>)
    /\ UNCHANGED <<serverVars, notClient, storage, axiosAuth, user, loading>>

logout ==
    /\ user # NoUser
    /\ storage' = NullItem
    /\ axiosAuth' = NoHeader
    /\ user' = NoUser
    /\ UNCHANGED <<serverVars, notClient, loading, call>>

(* c.JSON(fiber.Map{"token": token, "user": fiber.Map{...}})               *)
LoginData(out, rsp) ==
    ("token" :> JwtStr(rsp.token)) @@ ("user" :> LoginUser(out.id))

(* GET /api/users/me: the user the token names, if there still is one.    *)
UsersMe(email) ==
    {LoginUser(id) : id \in {i \in DOMAIN users : users[i].username = email}}

Answered(status, data) ==
    call' = [call EXCEPT !.answered = TRUE, !.status = status, !.data = data]

(* The server answers the request in flight: the router runs its stack.    *)
Serve ==
    /\ call # NoCall /\ ~call.answered
    /\ LET req == call.req
           ran == HandlersRun(Stack, 1, req, now)
           auth == RequireAuth(req.auth, now)
       IN  IF Last(ran) = "LoginWithUserService"
           THEN \E out \in Authenticate(TrimSpace(Field(req.body, "username")),
                                        Field(req.body, "password")) :
                   LET rsp == LoginResponse(out, now)
                       grant == [tok |-> rsp.token, at |-> now, user |-> out.username]
                   IN  IF out.err = "nil"
                       THEN /\ Cardinality(tokens \cup {grant}) <= MaxTokens
                            /\ tokens' = tokens \cup {grant}
                            /\ Answered(rsp.status, LoginData(out, rsp))
                       ELSE /\ UNCHANGED tokens
                            /\ Answered(rsp.status, <<>>)
           ELSE /\ UNCHANGED tokens
                /\ IF ~auth.next THEN Answered(auth.resp.status, <<>>)
                   ELSE IF Last(ran) = "GetAllProducts" THEN Answered(StatusOK, <<>>)
                   ELSE IF UsersMe(auth.email) = {} THEN Answered(StatusNotFound, <<>>)
                   ELSE \E me \in UsersMe(auth.email) : Answered(StatusOK, me)
    /\ UNCHANGED <<storeVars, pc, op, txopen, txbuf, step, raised, result, resp, formError,
                   issued, now, http, reply, notClient, storage, axiosAuth, user,
                   loading>>

Succeeded == call.status \in 200..299

(* login, second half: the response is in.                                 *)
loginResolved ==
    /\ call # NoCall /\ call.kind = "login" /\ call.answered
    /\ IF Succeeded
       THEN LET access_token == Prop(call.data, "access_token")
                userData == Prop(call.data, "user")
            IN  /\ storage' = ToText(access_token)
                /\ axiosAuth' = Bearer(ToText(access_token))
                /\ user' = userData
       ELSE UNCHANGED <<storage, axiosAuth, user>>
    /\ call' = NoCall
    /\ UNCHANGED <<serverVars, notClient, loading>>

(* fetchUserInfo, second half: setUser, or logout in the catch; finally    *)
(* setLoading(false).                                                      *)
fetchUserInfoResolved ==
    /\ call # NoCall /\ call.kind = "fetchUserInfo" /\ call.answered
    /\ IF Succeeded
       THEN user' = call.data /\ UNCHANGED <<storage, axiosAuth>>
       ELSE storage' = NullItem /\ axiosAuth' = NoHeader /\ user' = NoUser
    /\ loading' = FALSE
    /\ call' = NoCall
    /\ UNCHANGED <<serverVars, notClient>>

fetchProductsResolved ==
    /\ call # NoCall /\ call.kind = "fetchProducts" /\ call.answered
    /\ call' = NoCall
    /\ UNCHANGED <<serverVars, notClient, storage, axiosAuth, user, loading>>

(* A user userService.Create has added without a name.                    *)
ClientUserTables ==
    {SeedUsers, CreatedUser("bob") @@ SeedUsers, CreatedUser("") @@ SeedUsers}

(* What localStorage holds when the page is opened: nothing, or the item  *)
(* an earlier visit left there, a token of bob's included.                *)
EarlierGrant == [tok |-> GenerateJWT(JwtSecret, "bob", 0), at |-> 0, user |-> "bob"]

StoredItems == {NullItem, GarbageStr, JwtStr(EarlierGrant.tok)}

InitClient ==
    /\ users \in ClientUserTables
    /\ storage \in StoredItems
    /\ NoRequests
    /\ tokens = IF storage.kind = "jwt" THEN {EarlierGrant} ELSE {}
    /\ rd = NoRead
    /\ env = NoEnv
    /\ ConfigUnloaded
    /\ NotBooted
    /\ FormEmpty
    /\ axiosAuth = NoHeader
    /\ user = NoUser
    /\ loading = TRUE
    /\ call = NoCall

NextClient ==
    \/ useEffect
    \/ Reload
    \/ \E password \in {"admin123", "wrong"} : login("admin@luxtrack.com", password)
    \/ fetchProducts
    \/ logout
    \/ Serve
    \/ loginResolved
    \/ fetchUserInfoResolved
    \/ fetchProductsResolved
    \/ \E d \in Jumps : Tick(d)

SpecClient == InitClient /\ [][NextClient]_vars

(* ---------------------------------------------------------------------- *)
(* Process startup: main, InitDB, RunMigrations, StartServer              *)
(* ---------------------------------------------------------------------- *)
MaxServed == 2

(* What the process may find: the database reachable or not, its schema   *)
(* not migrated yet, at the embedded version, or left dirty by a failed   *)
(* migration, and the port free or taken.                                 *)
Worlds == [up : BOOLEAN, schema : {"none", "current", "dirty"}, portFree : BOOLEAN]

(* log.Fatal: the message is written and os.Exit(1) ends the process.      *)
Fatal == boot' = [boot EXCEPT !.pc = "exited"]

Step(next, line) ==
    boot' = [boot EXCEPT !.pc = next, !.printed = boot.printed \cup {line}]

(* db.Ping, and every later statement sent to the database, fails while   *)
(* the database cannot be reached.                                        *)
PingSucceedsAlways(w) == FALSE

PingFails(w) == ~w.up

(* main: config.LoadConfig(), that is Get(), that is once.Do(load).        *)
LoadConfig ==
    /\ boot.pc = "main"
    /\ LET dbPort == Atoi(getEnv("DB_PORT", "5432"))
       IN  IF dbPort = -1
           THEN Step("exited", "Server starting...") /\ UNCHANGED <<cfg, once>>
           ELSE /\ cfg' = [DBPort |-> dbPort, AppPort |-> getEnv("APP_PORT", "8080")]
                /\ once' = [done |-> TRUE, m |-> ""]
                /\ Step("InitDB", "Server starting...")
    /\ UNCHANGED <<serverVars, notBoot, env, callers, returned, world>>

(* InitDB: sql.Open with the registered driver only records the DSN; then *)
(* db.Ping.                                                               *)
InitDB ==
    /\ boot.pc = "InitDB"
    /\ IF PingFails(world)
       THEN boot' = [boot EXCEPT !.pc = "exited", !.db = "open"]
       ELSE boot' = [boot EXCEPT !.pc = "RunMigrations", !.db = "open",
                                 !.printed = boot.printed \cup {"Database connected"}]
    /\ UNCHANGED <<serverVars, notBoot, configVars, world>>

(* RunMigrations up to migrate.NewWithInstance: GetDB, the nil check,     *)
(* postgres.WithInstance (which pings and sets up the version table), the *)
(* embedded source.                                                       *)
WithInstance ==
    /\ boot.pc = "RunMigrations"
    /\ IF boot.db = "nil" \/ PingFails(world)
       THEN Fatal
       ELSE boot' = [boot EXCEPT !.pc = "Up"]
    /\ UNCHANGED <<serverVars, notBoot, configVars, world>>

(* m.Up(): ErrNoChange when the schema is at the embedded version, an     *)
(* error when it is dirty or the database is gone; otherwise the          *)
(* migration runs, and either applies or fails and leaves it dirty.       *)
Up ==
    /\ boot.pc = "Up"
    /\ IF PingFails(world) \/ world.schema = "dirty"
       THEN Fatal /\ UNCHANGED world
       ELSE IF world.schema = "current"
       THEN Step("StartServer", "Migrations: no change") /\ UNCHANGED world
       ELSE \/ /\ world' = [world EXCEPT !.schema = "current"]
               /\ Step("StartServer", "Migrations applied")
            \/ /\ world' = [world EXCEPT !.schema = "dirty"]
               /\ Fatal
    /\ UNCHANGED <<serverVars, notBoot, configVars>>

(* StartServer: the routes are registered, then log.Fatal(app.Listen).     *)
StartServer ==
    /\ boot.pc = "StartServer"
    /\ IF world.portFree
       THEN Step("listening", "Server started on " \o cfg.AppPort)
       ELSE Fatal
    /\ UNCHANGED <<serverVars, notBoot, configVars, world>>

(* The listener hands a request to the router.                            *)
ServeRequest ==
    /\ boot.pc = "listening"
    /\ boot.served < MaxServed
    /\ boot' = [boot EXCEPT !.served = boot.served + 1]
    /\ UNCHANGED <<serverVars, notBoot, configVars, world>>

(* app.Listen returns an error: log.Fatal.                                 *)
ListenReturns ==
    /\ boot.pc = "listening"
    /\ Fatal
    /\ UNCHANGED <<serverVars, notBoot, configVars, world>>

(* The database goes away or comes back while the process runs.           *)
Outage ==
    /\ boot.pc # "exited"
    /\ world' = [world EXCEPT !.up = ~world.up]
    /\ UNCHANGED <<serverVars, notBoot, configVars, boot>>

InitBoot ==
    /\ Quiet
    /\ rd = NoRead
    /\ PageClosed
    /\ FormEmpty
    /\ env \in Envs
    /\ ConfigUnloaded
    /\ boot = ProcessStart
    /\ world \in Worlds

NextBoot ==
    \/ LoadConfig
    \/ InitDB
    \/ WithInstance
    \/ Up
    \/ StartServer
    \/ ServeRequest
    \/ ListenReturns
    \/ Outage

SpecBoot == InitBoot /\ [][NextBoot]_vars

(* ---------------------------------------------------------------------- *)
(* The product form's image upload                                        *)
(* ---------------------------------------------------------------------- *)
MaxImages == 3
MaxSelected == 3

maxFiles == 10

(* 5 * 1024 * 1024                                                         *)
MaxImageBytes == 5 * 1024 * 1024

(* The files of the picker: one of exactly the limit, a small one and one *)
(* a byte over the limit.                                                 *)
FilePool ==
    {[name |-> "a.png", size |-> MaxImageBytes],
     [name |-> "b.png", size |-> 1],
     [name |-> "c.png", size |-> MaxImageBytes + 1]}

(* e.target.files: up to MaxSelected different files in the order picked, *)
(* or one more than maxFiles.                                             *)
Selections ==
    {q \in UNION {[1..n -> FilePool] : n \in 0..MaxSelected} :
        \A i, j \in DOMAIN q : i # j => q[i] # q[j]}
      \cup {[i \in 1..(maxFiles + 1) |-> [name |-> "b.png", size |-> 1]]}

(* reader.readAsDataURL: the data URL of the file's content.              *)
DataURL(file) == [scheme |-> "data:", of |-> file.name]

Pending == {i \in DOMAIN readers : ~readers[i].done}

TooLarge(file) == file.size > MaxImageBytes

(* handleImageUpload: every reader's onload closes over the images prop   *)
(* of the render in which the files were selected.  The case looked at is *)
(* a selection made when no read of an earlier one is pending.            *)
handleImageUpload(files) ==
    /\ Pending = {}
    /\ Len(images) < MaxImages
    /\ IF Len(files) > maxFiles
       THEN readers' = <<>>
       ELSE LET read == SelectSeq(files, LAMBDA f : ~TooLarge(f))
            IN  readers' = [i \in 1..Len(read) |->
                               [result |-> DataURL(read[i]), images |-> images,
                                done |-> FALSE]]
    /\ UNCHANGED <<serverVars, notUpload, images>>

(* reader.onload: onChange([...images, base64]), onChange being          *)
(* setImages.                                                             *)
onload(i) ==
    /\ i \in Pending
    /\ images' = Append(readers[i].images, readers[i].result)
    /\ readers' = [readers EXCEPT ![i].done = TRUE]
    /\ UNCHANGED <<serverVars, notUpload>>

(* removeImage: images.filter((_, i) => i !== index)                       *)
removeImage(index) ==
    /\ Pending = {}
    /\ index \in DOMAIN images
    /\ images' = [k \in 1..(Len(images) - 1) |->
                     IF k < index THEN images[k] ELSE images[k + 1]]
    /\ UNCHANGED <<serverVars, notUpload, readers>>

InitUpload ==
    /\ Quiet
    /\ rd = NoRead
    /\ env = NoEnv
    /\ ConfigUnloaded
    /\ PageClosed
    /\ NotBooted
    /\ FormEmpty

NextUpload ==
    \/ \E files \in Selections : handleImageUpload(files)
    \/ \E i \in 1..MaxSelected : onload(i)
    \/ \E index \in 1..MaxImages : removeImage(index)

SpecUpload == InitUpload /\ [][NextUpload]_vars

(* ---------------------------------------------------------------------- *)
(* Properties of transaction creation                                     *)
(* ---------------------------------------------------------------------- *)
IsTx(r) == op[r].kind = "transaction"
IsSale(r) == IsTx(r) /\ op[r].body.transaction_type = "sale"
Persisted(r) == TxId(r) \in DOMAIN transactions
LinesOf(t) == {d \in details : d.transaction_id = t}
References(r, p) == \E i \in 1..Len(op[r].body.items) : op[r].body.items[i].product_id = p

RECURSIVE SumLines(_)
SumLines(D) ==
    IF D = {} THEN 0
    ELSE LET d == CHOOSE x \in D : TRUE
         IN  d.quantity * d.unit_price + SumLines(D \ {d})

(* C1: every persisted transaction's total amount is the sum of           *)
(* quantity * unit_price over its persisted line items, whatever total    *)
(* the client sent.                                                       *)
C1_TotalIsSumOfLines ==
    \A t \in DOMAIN transactions :
        transactions[t].total_amount = SumLines(LinesOf(t))

C1_Witness ==
    \E r \in Reqs :
        /\ IsTx(r) /\ pc[r] = "done" /\ Persisted(r)
        /\ Len(op[r].body.items) = 2
        /\ op[r].body.total_amount \in ClientTotals
        /\ transactions[TxId(r)].total_amount # op[r].body.total_amount
        /\ Cardinality(LinesOf(TxId(r))) = 2

(* C2: a creation request with an empty line-item list is answered with   *)
(* the validation error in the step that receives it, opens no store      *)
(* transaction, and that step leaves the store as it was.                 *)
C2_EmptyItemsRejected ==
    [][\A r \in Reqs :
          (op'[r].kind = "transaction" /\ op'[r].body.items = <<>>) =>
              /\ pc'[r] = "done"
              /\ result'[r] = "validation"
              /\ resp'[r].status = StatusBadRequest
              /\ ~txopen'[r]
              /\ ~Persisted(r)' /\ LinesOf(TxId(r))' = {}
              /\ (pc[r] = "idle" => storeVars' = storeVars)]_vars

C2_Witness ==
    \E r \in Reqs :
        /\ IsTx(r) /\ op[r].body.items = <<>> /\ op[r].via = "api"
        /\ pc[r] = "done" /\ resp[r].status = StatusBadRequest

CommitsNow(r) == pc[r] = "commit" /\ pc'[r] = "done" /\ result'[r] = "nil"
FailsNow(r) == pc[r] # "done" /\ pc'[r] = "done" /\ result'[r] # "nil"

(* C3: the store changes only in the step that commits a request; a       *)
(* creation request that fails leaves the store as it was, none of its    *)
(* rows is in the store afterwards and its response is an error; a        *)
(* request whose header is in the store has all its line items there.     *)
C3_AllOrNothing ==
    [][/\ (storeVars' # storeVars => \E r \in Reqs : CommitsNow(r))
       /\ \A r \in Reqs :
            IsTx(r)' =>
              /\ (FailsNow(r) => storeVars' = storeVars)
              /\ (pc'[r] = "done" /\ result'[r] # "nil" =>
                    /\ ~Persisted(r)' /\ LinesOf(TxId(r))' = {}
                    /\ resp'[r].status >= StatusBadRequest)
              /\ (Persisted(r)' \/ LinesOf(TxId(r))' # {} =>
                    /\ pc'[r] = "done" /\ result'[r] = "nil"
                    /\ Persisted(r)'
                    /\ Cardinality(LinesOf(TxId(r))') = Len(op'[r].body.items))]_vars

C3_Witness ==
    \E r \in Reqs :
        /\ IsSale(r) /\ pc[r] = "done"
        /\ Len(op[r].body.items) = 2
        /\ op[r].body.items[1].product_id = "p1"
        /\ op[r].body.items[2].product_id = "p3"
        /\ result[r] = "fk_violation"
        /\ step[r] = 2
        /\ ~Persisted(r) /\ LinesOf(TxId(r)) = {}
        /\ products["p1"].status_id = Available

HasSale(p) ==
    \E d \in details :
        /\ d.product_id = p
        /\ transactions[d.transaction_id].transaction_type = "sale"

(* What a fetch of product p returns.                                      *)
Fetch(p) == IF p \in DOMAIN products THEN products[p] ELSE NoRow

StoreFaults == {"begin_failed", "exec_failed", "commit_failed"}

(* C5: no sale is refused on account of the status of its products or of  *)
(* another sale: a sale request with line items fails only on a store     *)
(* fault or on a line item whose product does not exist.                  *)
C5_SalesNotGuarded ==
    \A r \in Reqs :
        (IsSale(r) /\ pc[r] = "done" /\ op[r].body.items # <<>> /\ result[r] # "nil")
            => result[r] \in StoreFaults \cup {"fk_violation"}

(* The same product recorded as sold by two transactions.                  *)
C5_Witness ==
    \E r, q \in Reqs :
        /\ r # q
        /\ IsSale(r) /\ IsSale(q)
        /\ Persisted(r) /\ Persisted(q)
        /\ \E d, e \in details :
              /\ d.transaction_id = TxId(r) /\ e.transaction_id = TxId(q)
              /\ d.product_id = "p1" /\ e.product_id = "p1"
        /\ Fetch("p1").status_id = Sold


(* ---------------------------------------------------------------------- *)
(* Properties of the service layer                                        *)
(* ---------------------------------------------------------------------- *)
ServiceKinds == {"user_create", "user_update", "user_delete",
                 "product_create", "product_update", "product_delete"}

ReturnsNow(r) == pc[r] # "done" /\ pc'[r] = "done"

(* Tables f and g agree on every row but the one with key k.               *)
SameExcept(f, g, k) ==
    \A x \in (DOMAIN f \cup DOMAIN g) \ {k} :
        x \in DOMAIN f /\ x \in DOMAIN g /\ f[x] = g[x]

(* The whole write of request r's operation is in the store after this    *)
(* step and nothing else has changed; an update or delete whose           *)
(* statement matched no row (it buffered no write) changes nothing.       *)
WrittenInFull(r) ==
    LET o == op[r]
    IN  /\ UNCHANGED <<transactions, details, logs>>
        /\ CASE o.kind = "user_create" ->
                  /\ o.u.id \in DOMAIN users'
                  /\ users'[o.u.id] = [username |-> o.u.username,
                                       password_hash |-> o.u.password_hash,
                                       role |-> o.u.role,
                                       created_by |-> o.u.created_by,
                                       updated_by |-> o.u.updated_by]
                  /\ SameExcept(users, users', o.u.id)
                  /\ UNCHANGED products
             [] o.kind = "user_update" ->
                  /\ UNCHANGED products
                  /\ IF txbuf[r] = <<>> THEN UNCHANGED users
                     ELSE /\ o.u.id \in DOMAIN users /\ o.u.id \in DOMAIN users'
                          /\ users'[o.u.id] =
                                [users[o.u.id] EXCEPT !.username = o.u.username,
                                                      !.role = o.u.role,
                                                      !.updated_by = o.u.updated_by]
                          /\ SameExcept(users, users', o.u.id)
             [] o.kind = "user_delete" ->
                  /\ UNCHANGED products
                  /\ IF txbuf[r] = <<>> THEN UNCHANGED users
                     ELSE /\ o.id \notin DOMAIN users'
                          /\ SameExcept(users, users', o.id)
             [] o.kind = "product_create" ->
                  /\ UNCHANGED users
                  /\ o.p.id \in DOMAIN products'
                  /\ products'[o.p.id] = RowOf(o.p)
                  /\ SameExcept(products, products', o.p.id)
             [] o.kind = "product_update" ->
                  /\ UNCHANGED users
                  /\ IF txbuf[r] = <<>> THEN UNCHANGED products
                     ELSE /\ o.p.id \in DOMAIN products'
                          /\ products'[o.p.id] =
                                RowOf(o.p)
                          /\ SameExcept(products, products', o.p.id)
             [] o.kind = "product_delete" ->
                  /\ UNCHANGED users
                  /\ IF txbuf[r] = <<>> THEN UNCHANGED products
                     ELSE /\ o.id \notin DOMAIN products'
                          /\ SameExcept(products, products', o.id)

(* C6: the store changes only in the step in which a service call         *)
(* returns no error, and then by that operation's whole write; a call     *)
(* that returns an error returns the error the store or repository        *)
(* raised and its steps leave the store as it was.                        *)
C6_AtomicServiceCalls ==
    [][/\ (storeVars' # storeVars =>
              \E q \in Reqs : ReturnsNow(q) /\ result'[q] = "nil")
       /\ \A r \in Reqs :
            (op'[r].kind \in ServiceKinds /\ ReturnsNow(r)) =>
                \/ result'[r] = "nil" /\ raised'[r] = "nil" /\ WrittenInFull(r)
                \/ /\ result'[r] # "nil"
                   /\ result'[r] = raised'[r]
                   /\ storeVars' = storeVars]_vars

C6_Witness ==
    \E r, q \in Reqs :
        /\ op[r].kind = "product_update" /\ pc[r] = "done" /\ result[r] = "nil"
        /\ op[r].p = [id |-> "p1", code |-> "c1", status_id |-> Sold]
        /\ products["p1"] = [code |-> "c1", status_id |-> Sold, source_id |-> ""]
        /\ op[q].kind = "user_create" /\ pc[q] = "done"
        /\ result[q] = "commit_failed"
        /\ op[q].u.id \notin DOMAIN users

(* C7: a request holds an open store transaction only between a           *)
(* successful begin and its return; before the begin and after the        *)
(* return, on every path, it holds none.                                  *)
C7_NoTransactionLeftOpen ==
    \A r \in Reqs :
        /\ txopen[r] <=> pc[r] \in {"exec", "commit"}
        /\ (pc[r] \in {"idle", "begin", "done"} => txbuf[r] = <<>>)

C7_Witness ==
    \E r, q \in Reqs :
        /\ pc[r] = "done" /\ result[r] = "commit_failed"
        /\ pc[q] = "done" /\ result[q] \in {"unique_violation", "invalid_uuid"}
        /\ \A x \in Reqs : ~txopen[x]


(* ---------------------------------------------------------------------- *)
(* Properties of authentication                                           *)
(* ---------------------------------------------------------------------- *)
ProductHandlers == {"CreateProduct", "GetAllProducts"}

Ran(x, hs) == \E i \in 1..Len(x.ran) : x.ran[i] \in hs

(* The header is 'Bearer <token>', the token is signed under the          *)
(* configured secret, and at time t it has not expired.                   *)
BearerOfValidToken(h, t) ==
    /\ h.prefix = "Bearer "
    /\ h.rest.kind = "jwt"
    /\ h.rest.tok.sig = <<h.rest.tok.email, h.rest.tok.exp, JwtSecret>>
    /\ t < h.rest.tok.exp * TicksPerSec

(* C8: in every exchange, a product handler runs only for a request whose *)
(* header is a bearer token with a valid signature and unexpired at that  *)
(* time; any other request to the product routes gets 401 from the        *)
(* middleware, runs no handler and starts no service call; the login      *)
(* route runs its handler without passing the middleware.                 *)
C8_ProtectedRoutesNeedValidToken ==
    [][http' # http =>
          /\ Ran(http', ProductHandlers) => BearerOfValidToken(http'.auth, now)
          /\ (http'.path = "/api/products" /\ ~BearerOfValidToken(http'.auth, now)) =>
                /\ http'.resp.status = StatusUnauthorized
                /\ http'.ran = <<"RequireAuth">>
                /\ pc' = pc /\ op' = op
          /\ (http'.path = "/api/auth/login" /\ http'.method = "POST") =>
                http'.ran = <<"LoginWithUserService">>]_vars

(* A token that was issued and has since expired is turned away.           *)
C8_Witness ==
    /\ http.path = "/api/products"
    /\ http.auth.prefix = "Bearer "
    /\ \E i \in tokens : http.auth.rest = JwtStr(i.tok) /\ now >= i.tok.exp * TicksPerSec
    /\ http.resp.status = StatusUnauthorized
    /\ http.ran = <<"RequireAuth">>

Accepts(i, t) ==
    LET v == ValidateJWT(JwtSecret, JwtStr(i.tok), t)
    IN  v.err = "nil" /\ v.email = i.user

Rejects(i, t) == ValidateJWT(JwtSecret, JwtStr(i.tok), t).err # "nil"

(* C9 as stated: a token issued at time t is accepted, with the identity  *)
(* of the user who logged in, at every time before t + 24h and rejected   *)
(* at every time after t + 24h.                                           *)
C9_ValidFor24Hours ==
    \A i \in tokens :
        /\ now < i.at + TokenTTL => Accepts(i, now)
        /\ now > i.at + TokenTTL => Rejects(i, now)

(* t + 24h with the fraction of a second dropped                           *)
ExpiryInstant(i) == ((i.at + TokenTTL) \div TicksPerSec) * TicksPerSec

(* C9 amended: the token is accepted, with the identity of the user who   *)
(* logged in, at every time before t + 24h truncated to the whole second, *)
(* and rejected from that instant on.                                     *)
C9_ValidUntilWholeSecond ==
    \A i \in tokens :
        /\ now < ExpiryInstant(i) => Accepts(i, now)
        /\ now >= ExpiryInstant(i) => Rejects(i, now)

(* Issued within a second; rejected before the 24 hours are over.          *)
C9_Witness ==
    \E i \in tokens :
        /\ i.at % TicksPerSec # 0
        /\ now >= ExpiryInstant(i) /\ now < i.at + TokenTTL
        /\ Rejects(i, now)
        /\ i.user = "bob"

(* C10: every login that fails authentication, whether no user has the    *)
(* name or the password is wrong, gets the same response: 401, 'invalid   *)
(* credentials', no token.                                                *)
C10_LoginFailuresAlike ==
    (Ran(http, {"LoginWithUserService"}) /\ http.authErr # "nil") =>
        http.resp = [status |-> StatusUnauthorized, body |-> "invalid credentials",
                     token |-> NoTok]

C10_Witness ==
    /\ Ran(http, {"LoginWithUserService"})
    /\ http.authErr = "sql: no rows in result set"
    /\ http.body.username = "eve"
    /\ \E id \in DOMAIN users : users[id].username = "bob"
    /\ http.resp.status = StatusUnauthorized


(* ---------------------------------------------------------------------- *)
(* Properties of the seeded account                                       *)
(* ---------------------------------------------------------------------- *)
AdminNames == {"admin", "admin@luxtrack.com"}

LoginOf(names) ==
    /\ Ran(http, {"LoginWithUserService"})
    /\ http.body.username \in names

(* C11: on a store holding only the seeded data, a login of the admin     *)
(* account with password admin123 is answered 200 with a token, and a     *)
(* login of that account with another password is answered 401 without a  *)
(* token.                                                                 *)
C11_AdminLogin ==
    (users = SeedUsers /\ LoginOf(AdminNames)) =>
        IF http.body.password = "admin123"
        THEN http.resp.status = StatusOK /\ http.resp.token # NoTok
        ELSE http.resp.status = StatusUnauthorized /\ http.resp.token = NoTok


(* ---------------------------------------------------------------------- *)
(* Properties of the user endpoints                                       *)
(* ---------------------------------------------------------------------- *)
StoredHashes == {users[id].password_hash : id \in DOMAIN users}

Leaks(j) == "password_hash" \in DOMAIN j /\ j.password_hash \in StoredHashes

(* C12: no user object in a response of login, get user by id or list     *)
(* users carries a stored password hash, and the responses of create,     *)
(* update and delete carry no user object at all: an id, a fixed message  *)
(* or an error text.                                                      *)
C12_HashNeverSent ==
    /\ \A j \in reply.users : ~Leaks(j)
    /\ \A r \in Reqs :
          resp[r].body \in {"", "updated", "deleted", "invalid payload", "missing id",
                            "begin_failed", "exec_failed", "commit_failed",
                            "invalid_uuid", "unique_violation", "hash_failed"}
                             \cup UserIds \cup {UuidPool[i] : i \in 1..Len(UuidPool)}

(* A login, a get and a list have each answered with a user object.        *)
C12_Witness ==
    /\ reply.h = "ListUsers" /\ reply.status = StatusOK
    /\ \E j \in reply.users : j.username = "bob" /\ j.id = "u2"
    /\ users["u2"].password_hash = BcryptOf("admin123")
    /\ \E r \in Reqs : op[r].kind = "user_update" /\ resp[r].status = StatusOK


(* The id an update or delete names.                                       *)
TargetId(o) == IF o.kind = "user_update" THEN o.u.id ELSE o.id

(* The request fails through the client's doing: its payload is           *)
(* malformed, or it is an update or delete whose statement ran without a  *)
(* store error and found no row with the id it names.                     *)
ClientError(r) ==
    \/ op'[r].kind = "bad_request"
    \/ /\ op[r].kind \in {"user_update", "user_delete"}
       /\ TargetId(op[r]) \notin DOMAIN users
       /\ pc[r] = "commit" /\ txbuf[r] = <<>>
       /\ raised'[r] = "nil"

(* C16: every request that fails because of a client error is answered    *)
(* with a 4xx status; in particular an update or delete of an id that is  *)
(* not in the store is.                                                   *)
C16_ClientErrorsGet4xx ==
    [][\A r \in Reqs :
          (pc[r] # "done" /\ pc'[r] = "done" /\ ClientError(r)) =>
              resp'[r].status \in 400..499]_vars

(* The store or the service raised an error while request r was handled. *)
Faulted(r) == pc[r] = "done" /\ raised[r] # "nil"

(* C17: a request during which the store or the service raised an error   *)
(* is answered with a 5xx status and a message that is not the error's    *)
(* text and is the same for every such request, whatever the error was.   *)
C17_StoreErrorsGetGenericMessage ==
    /\ \A r \in Reqs :
          Faulted(r) => resp[r].status \in 500..599 /\ resp[r].body # raised[r]
    /\ \A r, q \in Reqs :
          (Faulted(r) /\ Faulted(q)) => resp[r].body = resp[q].body

(* C18: get user by id answers 200 with the record when a row with the    *)
(* id is in the store, and 404 without a record when none is.             *)
C18_GetByIdFindsWhatExists ==
    [][(reply' # reply /\ reply'.h = "GetUserByID") =>
          IF reply'.id \in DOMAIN users
          THEN /\ reply'.status = StatusOK
               /\ \E j \in reply'.users : j.id = reply'.id
          ELSE /\ reply'.status = StatusNotFound
               /\ reply'.users = {}]_vars

(* What c.BodyParser makes of an update body.                              *)
ParsedUpdate(body) ==
    [id |-> Field(body, "id"), username |-> Field(body, "username"),
     role |-> Field(body, "role")]

(* The bodies request r's update can have come from.                       *)
BodiesOf(r) ==
    {body \in UpdateUserBodies :
        /\ ~IsMalformed(body)
        /\ ParsedUpdate(body) = [f \in {"id", "username", "role"} |-> op[r].u[f]]}

(* C19: in the step that commits an update of an existing user, every     *)
(* field the request supplied gets the supplied value and every field it  *)
(* did not supply keeps the value it had.                                 *)
C19_UpdateMerges ==
    [][\A r \in Reqs :
          (CommitsNow(r) /\ op[r].kind = "user_update" /\ txbuf[r] # <<>>) =>
              \A body \in BodiesOf(r) :
                  \A f \in {"username", "role", "password_hash", "created_by"} :
                      users'[body.id][f] =
                          IF f \in DOMAIN body THEN body[f] ELSE users[body.id][f]]_vars

(* The row request r's create is inserting lacks a required field.        *)
LacksRequired(r) ==
    \/ op[r].kind = "user_create"
          /\ (op[r].u.username = "" \/ op[r].u.password_hash = BcryptOf(""))
    \/ op[r].kind = "product_create" /\ op[r].p.code = ""

(* C20: a create request that lacks a required field (username or        *)
(* password of a user, code of a product) is answered with an error, and  *)
(* none of its steps inserts a row.                                       *)
C20_CreateValidates ==
    [][\A r \in Reqs :
          LacksRequired(r) =>
              /\ storeVars' = storeVars \/ \E q \in Reqs \ {r} : CommitsNow(q)
              /\ (pc[r] # "done" /\ pc'[r] = "done") => resp'[r].status >= StatusBadRequest]_vars

(* ---------------------------------------------------------------------- *)
(* Properties of products                                                 *)
(* ---------------------------------------------------------------------- *)
UniqueCodes ==
    \A a, b \in DOMAIN products : a # b => products[a].code # products[b].code

(* Request r is about to run a create, or an update of an existing        *)
(* product, with a code that another product has.                         *)
WouldDuplicate(r) ==
    /\ pc[r] = "exec"
    /\ op[r].kind \in {"product_create", "product_update"}
    /\ op[r].kind = "product_update" => op[r].p.id \in DOMAIN products
    /\ \E x \in DOMAIN products : x # op[r].p.id /\ products[x].code = op[r].p.code

(* C13: no two products have the same code in any state, and a create or  *)
(* update that would give a product the code of another product returns   *)
(* an error and leaves the store unchanged.                               *)
C13_CodeUnique ==
    [][/\ UniqueCodes /\ UniqueCodes'
       /\ \A r \in Reqs :
            (WouldDuplicate(r) /\ pc'[r] # "exec") =>
                /\ pc'[r] = "done"
                /\ result'[r] # "nil"
                /\ storeVars' = storeVars]_vars

C13_Witness ==
    \E r, q \in Reqs :
        /\ op[r].kind = "product_update" /\ op[r].p.id = "p1" /\ op[r].p.code = "c2"
        /\ pc[r] = "done" /\ result[r] = "unique_violation"
        /\ op[q].kind = "product_create" /\ op[q].p.id = "p3" /\ op[q].p.code = "c1"
        /\ pc[q] = "done" /\ result[q] = "unique_violation"
        /\ "p1" \in DOMAIN products /\ "p2" \in DOMAIN products
        /\ "p3" \notin DOMAIN products


C15_LogsAppendOnly == [][logs \subseteq logs']_vars

(* A product and a user have log rows; an update of each has committed,   *)
(* a delete of each has been attempted, and the rows are still there.     *)
C15_Witness ==
    \E r, q \in Reqs :
        /\ \E l \in logs : l.table = "product_logs" /\ l.subject = "p1"
        /\ \E l \in logs : l.table = "user_logs" /\ l.subject = "u2"
        /\ op[r].kind \in {"product_delete", "user_delete"}
        /\ pc[r] = "done" /\ result[r] = "fk_violation"
        /\ op[q].kind \in {"product_update", "user_update"}
        /\ pc[q] = "done" /\ result[q] = "nil"
        /\ "p1" \in DOMAIN products /\ products["p1"].status_id = Sold

Fetched(q) ==
    IF q.kind # "stats" \/ q.status = StatusInternalServerError THEN {}
    ELSE (IF q.step > 1 THEN {"total_products"} ELSE {})
            \cup (IF q.step > 2 THEN {"total_customers"} ELSE {})
            \cup (IF q.step > 3 THEN {"total_sources"} ELSE {})

RowCount(f) ==
    CASE f = "total_products" -> Cardinality(DOMAIN products)
      [] f = "total_customers" -> Cardinality(DOMAIN customers)
      [] f = "total_sources" -> Cardinality(DOMAIN sources)

(* C22: each of total_products, total_customers and total_sources of the  *)
(* stats response is the number of rows its table holds in the state in   *)
(* which the endpoint queries it, and the response carries what was       *)
(* counted.                                                               *)
C22_StatsAreRowCounts ==
    [][\A f \in Fetched(rd') :
          IF f \in Fetched(rd) THEN rd'.out[f] = rd.out[f]
          ELSE rd'.out[f] = RowCount(f)]_vars

(* A stats response that counted three products, two customers and two    *)
(* sources: every table has grown since the start.                        *)
C22_Witness ==
    /\ rd.kind = "stats" /\ rd.step = 4 /\ rd.status = StatusOK
    /\ rd.out = [total_products |-> 3, total_customers |-> 2, total_sources |-> 2]
    /\ \E id \in DOMAIN products : products[id].status_id = Sold

(* The query of the details request that runs in this step.               *)
DetailsStep(k) == rd.kind = "details" /\ rd.step = k /\ rd' # rd /\ rd'.kind = "details"

(* C23: the details request of a product id answers not found exactly     *)
(* when the store has no product with that id; otherwise it fetches the   *)
(* product row, the source row the product names (none when it names      *)
(* none), every log row of the product and every transaction with a line  *)
(* item of the product, and answers with what it fetched.                 *)
C23_ProductDetails ==
    [][/\ DetailsStep(0) =>
             IF rd.id \in DOMAIN products
             THEN rd'.status = 0 /\ rd'.out.product = products[rd.id]
             ELSE rd'.status = StatusNotFound
       /\ (DetailsStep(1) /\ rd'.status = 0) =>
             /\ rd'.out.source =
                  IF rd.out.product.source_id = "" THEN <<>>
                  ELSE [x \in {rd.out.product.source_id} \cap DOMAIN sources |-> sources[x]]
             /\ rd'.out.product = rd.out.product
       /\ (DetailsStep(2) /\ rd'.status = 0) =>
             /\ rd'.out.logs = {l \in logs : l.subject = rd.id}
             /\ rd'.out.product = rd.out.product /\ rd'.out.source = rd.out.source
       /\ (DetailsStep(3) /\ rd'.status = StatusOK) =>
             /\ \A t \in DOMAIN transactions :
                    t \in rd'.out.transactions <=>
                        \E d \in details : d.transaction_id = t /\ d.product_id = rd.id
             /\ rd'.out.transactions \subseteq DOMAIN transactions
             /\ rd'.out.product = rd.out.product /\ rd'.out.source = rd.out.source
             /\ rd'.out.logs = rd.out.logs]_vars

(* The details of the product that has a source, a log row and a sale.    *)
C23_Witness ==
    /\ rd.kind = "details" /\ rd.id = "p1" /\ rd.step = 4 /\ rd.status = StatusOK
    /\ DOMAIN rd.out.source = {"s1"}
    /\ rd.out.logs # {}
    /\ rd.out.transactions # {}
    /\ rd.out.product.status_id = Sold

(* C24: a step of a read request (a list, a get by id, a query of the     *)
(* details or of the dashboard stats), whether it answers with a result   *)
(* or with an error, leaves every table as it was and opens or writes no  *)
(* store transaction.                                                     *)
C24_ReadsChangeNothing ==
    [][(rd' # rd \/ reply' # reply) =>
          /\ storeVars' = storeVars
          /\ txopen' = txopen /\ txbuf' = txbuf]_vars

(* The product list has been read and a get by id has failed, while a     *)
(* write request holds uncommitted rows.                                   *)
C24_Witness ==
    /\ rd.kind = "products" /\ rd.status = StatusOK
    /\ reply.h = "GetUserByID" /\ reply.status = StatusNotFound
    /\ \E r \in Reqs : txbuf[r] # <<>>
    /\ Cardinality(DOMAIN customers) = 2

C26_RequestsCarryIssuedToken ==
    [][(user # NoUser /\ call = NoCall /\ call' # NoCall) =>
           /\ call'.req.auth.prefix = "Bearer "
           /\ \E g \in tokens : call'.req.auth.rest = JwtStr(g.tok)]_vars

(* C30: whenever the page has a user, localStorage holds an access token  *)
(* and the default Authorization header is "Bearer " followed by it; the  *)
(* step that clears the stored token, logout or a failed user-info fetch  *)
(* on load, also clears the header and the user and leaves loading false. *)
C30_AuthStateConsistent ==
    [][/\ user' # NoUser =>
              /\ storage'.kind = "jwt"
              /\ axiosAuth' = Bearer(storage')
       /\ (storage # NullItem /\ storage' = NullItem) =>
              /\ axiosAuth' = NoHeader
              /\ user' = NoUser
              /\ ~loading']_vars

(* The rows of the user a token names.                                    *)
AuthenticatedIds(email) == {id \in DOMAIN users : users[id].username = email}

(* c.Locals("email") of a user request: what CreateUser and UpdateUser    *)
(* pass on as CreatedBy and UpdatedBy.                                    *)
LocalsEmail(r) == op[r].u.updated_by

(* C27: a user row created or updated through the API has created_by and  *)
(* updated_by equal to the id of an existing user, the authenticated one  *)
(* who made the request.                                                  *)
C27_AuditColumnsNameTheCaller ==
    [][\A r \in Reqs :
          (/\ CommitsNow(r)
           /\ op[r].kind \in {"user_create", "user_update"}
           /\ txbuf[r] # <<>>) =>
              LET row == users'[op[r].u.id]
              IN  /\ row.updated_by \in DOMAIN users'
                  /\ row.updated_by \in AuthenticatedIds(LocalsEmail(r))
                  /\ op[r].kind = "user_create" =>
                         row.created_by \in AuthenticatedIds(LocalsEmail(r))]_vars

(* C28: the server listens and serves only with the configuration loaded, *)
(* the database handle opened and the schema at the embedded version; a   *)
(* request is served only by a listening process; a step of InitDB or of  *)
(* RunMigrations taken while the database is unreachable, and a migration *)
(* that does not end at the embedded version, end the process; and an     *)
(* ended process does nothing more.                                       *)
C28_StartupOrdered ==
    [][/\ (boot'.pc = "listening" \/ boot'.served > boot.served) =>
              /\ cfg' # NoConfig /\ once'.done
              /\ boot'.db = "open"
              /\ "Database connected" \in boot'.printed
              /\ world'.schema = "current"
       /\ boot'.served > boot.served => boot.pc = "listening"
       /\ (/\ boot.pc \in {"InitDB", "RunMigrations", "Up"}
           /\ boot' # boot
           /\ ~world.up \/ (boot.pc = "Up" /\ world'.schema # "current")) =>
              boot'.pc = "exited"
       /\ boot.pc = "exited" => boot' = boot]_vars

C28_Witness ==
    /\ boot.served > 0
    /\ "Migrations applied" \in boot.printed

(* C29: when the last file-read callback of a selection has run, the      *)
(* image list is the list as it was when the files were selected followed *)
(* by the images of all files read, whatever the order of the callbacks.  *)
C29_AllSelectedImagesAppended ==
    [][(Pending # {} /\ \A i \in DOMAIN readers' : readers'[i].done) =>
           LET previous == readers[1].images
               k == Len(readers)
           IN  /\ Len(images') = Len(previous) + k
               /\ SubSeq(images', 1, Len(previous)) = previous
               /\ {images'[j] : j \in (Len(previous) + 1)..Len(images')}
                     = {readers[i].result : i \in DOMAIN readers}]_vars

====
